---- MODULE Spec2Model ----
(***************************************************************************)
(* Model of src/blpapi.py: the Flask handler current_price_api and the     *)
(* lookup get_bloomberg_price, which opens a Bloomberg session, sends one  *)
(* ReferenceDataRequest for PX_LAST, polls the session's events and stops  *)
(* the session.                                                            *)
(*                                                                         *)
(* Python values are modelled as follows.                                  *)
(*  - A str that the code inspects character by character (the ticker) is *)
(*    a sequence of one-character strings; Str turns it into a string. A   *)
(*    character outside ASCII is written by its code point ("U+FF17").     *)
(*  - An optional value is None (the empty tuple) or Some(v) = <<v>>.      *)
(*  - PX_LAST is a float in the code; the model draws it from Prices, in   *)
(*    tenths (3125 stands for 312.5), 0 included because 0.0 is falsy.     *)
(*  - Every call on the provider (blpapi) returns or raises; which of the  *)
(*    two is the provider's choice, so it is a nondeterministic outcome.   *)
(***************************************************************************)
EXTENDS Integers, Sequences, FiniteSets, TLC

\* ------------------------------------------------------------------ bounds
\* nextEvent calls of one lookup that may return a non-terminal event; the
\* poll after them returns a TIMEOUT or a RESPONSE event.
MaxPolls == 2
\* messages one event carries at most
MaxMsgs == 2
\* records one securityData array carries at most
MaxRecs == 2
\* length of the ticker inputs the normalizer is checked on
MaxLen == 4

\* ---------------------------------------------------------------- options
None == <<>>
Some(x) == <<x>>
Val(o) == o[1]

\* Python truthiness of an optional str / optional char sequence: neither
\* None nor empty.
TruthyStr(o) == o # None /\ Val(o) # ""
TruthyChars(o) == o # None /\ Val(o) # <<>>

\* ---------------------------------------------------------------- strings
RECURSIVE Str(_)
Str(s) == IF s = <<>> THEN "" ELSE Head(s) \o Str(Tail(s))

Range(s) == {s[i] : i \in DOMAIN s}

\* A character outside ASCII is written by its code point: "U+FF17" is the
\* full-width digit seven, "U+00DF" the sharp s.

\* The characters for which str.isnumeric() holds: those with a Unicode
\* numeric value (Unicode 14.0, the version of the interpreter's tables).
NumericChars ==
    {"0", "1", "2", "3", "4", "5", "6", "7", "8", "9", "U+00B2", "U+00B3", "U+00B9",
     "U+00BC", "U+00BD", "U+00BE", "U+0660", "U+0661", "U+0662", "U+0663", "U+0664",
     "U+0665", "U+0666", "U+0667", "U+0668", "U+0669", "U+06F0", "U+06F1", "U+06F2",
     "U+06F3", "U+06F4", "U+06F5", "U+06F6", "U+06F7", "U+06F8", "U+06F9", "U+07C0",
     "U+07C1", "U+07C2", "U+07C3", "U+07C4", "U+07C5", "U+07C6", "U+07C7", "U+07C8",
     "U+07C9", "U+0966", "U+0967", "U+0968", "U+0969", "U+096A", "U+096B", "U+096C",
     "U+096D", "U+096E", "U+096F", "U+09E6", "U+09E7", "U+09E8", "U+09E9", "U+09EA",
     "U+09EB", "U+09EC", "U+09ED", "U+09EE", "U+09EF", "U+09F4", "U+09F5", "U+09F6",
     "U+09F7", "U+09F8", "U+09F9", "U+0A66", "U+0A67", "U+0A68", "U+0A69", "U+0A6A",
     "U+0A6B", "U+0A6C", "U+0A6D", "U+0A6E", "U+0A6F", "U+0AE6", "U+0AE7", "U+0AE8",
     "U+0AE9", "U+0AEA", "U+0AEB", "U+0AEC", "U+0AED", "U+0AEE", "U+0AEF", "U+0B66",
     "U+0B67", "U+0B68", "U+0B69", "U+0B6A", "U+0B6B", "U+0B6C", "U+0B6D", "U+0B6E",
     "U+0B6F", "U+0B72", "U+0B73", "U+0B74", "U+0B75", "U+0B76", "U+0B77", "U+0BE6",
     "U+0BE7", "U+0BE8", "U+0BE9", "U+0BEA", "U+0BEB", "U+0BEC", "U+0BED", "U+0BEE",
     "U+0BEF", "U+0BF0", "U+0BF1", "U+0BF2", "U+0C66", "U+0C67", "U+0C68", "U+0C69",
     "U+0C6A", "U+0C6B", "U+0C6C", "U+0C6D", "U+0C6E", "U+0C6F", "U+0C78", "U+0C79",
     "U+0C7A", "U+0C7B", "U+0C7C", "U+0C7D", "U+0C7E", "U+0CE6", "U+0CE7", "U+0CE8",
     "U+0CE9", "U+0CEA", "U+0CEB", "U+0CEC", "U+0CED", "U+0CEE", "U+0CEF", "U+0D58",
     "U+0D59", "U+0D5A", "U+0D5B", "U+0D5C", "U+0D5D", "U+0D5E", "U+0D66", "U+0D67",
     "U+0D68", "U+0D69", "U+0D6A", "U+0D6B", "U+0D6C", "U+0D6D", "U+0D6E", "U+0D6F",
     "U+0D70", "U+0D71", "U+0D72", "U+0D73", "U+0D74", "U+0D75", "U+0D76", "U+0D77",
     "U+0D78", "U+0DE6", "U+0DE7", "U+0DE8", "U+0DE9", "U+0DEA", "U+0DEB", "U+0DEC",
     "U+0DED", "U+0DEE", "U+0DEF", "U+0E50", "U+0E51", "U+0E52", "U+0E53", "U+0E54",
     "U+0E55", "U+0E56", "U+0E57", "U+0E58", "U+0E59", "U+0ED0", "U+0ED1", "U+0ED2",
     "U+0ED3", "U+0ED4", "U+0ED5", "U+0ED6", "U+0ED7", "U+0ED8", "U+0ED9", "U+0F20",
     "U+0F21", "U+0F22", "U+0F23", "U+0F24", "U+0F25", "U+0F26", "U+0F27", "U+0F28",
     "U+0F29", "U+0F2A", "U+0F2B", "U+0F2C", "U+0F2D", "U+0F2E", "U+0F2F", "U+0F30",
     "U+0F31", "U+0F32", "U+0F33", "U+1040", "U+1041", "U+1042", "U+1043", "U+1044",
     "U+1045", "U+1046", "U+1047", "U+1048", "U+1049", "U+1090", "U+1091", "U+1092",
     "U+1093", "U+1094", "U+1095", "U+1096", "U+1097", "U+1098", "U+1099", "U+1369",
     "U+136A", "U+136B", "U+136C", "U+136D", "U+136E", "U+136F", "U+1370", "U+1371",
     "U+1372", "U+1373", "U+1374", "U+1375", "U+1376", "U+1377", "U+1378", "U+1379",
     "U+137A", "U+137B", "U+137C", "U+16EE", "U+16EF", "U+16F0", "U+17E0", "U+17E1",
     "U+17E2", "U+17E3", "U+17E4", "U+17E5", "U+17E6", "U+17E7", "U+17E8", "U+17E9",
     "U+17F0", "U+17F1", "U+17F2", "U+17F3", "U+17F4", "U+17F5", "U+17F6", "U+17F7",
     "U+17F8", "U+17F9", "U+1810", "U+1811", "U+1812", "U+1813", "U+1814", "U+1815",
     "U+1816", "U+1817", "U+1818", "U+1819", "U+1946", "U+1947", "U+1948", "U+1949",
     "U+194A", "U+194B", "U+194C", "U+194D", "U+194E", "U+194F", "U+19D0", "U+19D1",
     "U+19D2", "U+19D3", "U+19D4", "U+19D5", "U+19D6", "U+19D7", "U+19D8", "U+19D9",
     "U+19DA", "U+1A80", "U+1A81", "U+1A82", "U+1A83", "U+1A84", "U+1A85", "U+1A86",
     "U+1A87", "U+1A88", "U+1A89", "U+1A90", "U+1A91", "U+1A92", "U+1A93", "U+1A94",
     "U+1A95", "U+1A96", "U+1A97", "U+1A98", "U+1A99", "U+1B50", "U+1B51", "U+1B52",
     "U+1B53", "U+1B54", "U+1B55", "U+1B56", "U+1B57", "U+1B58", "U+1B59", "U+1BB0",
     "U+1BB1", "U+1BB2", "U+1BB3", "U+1BB4", "U+1BB5", "U+1BB6", "U+1BB7", "U+1BB8",
     "U+1BB9", "U+1C40", "U+1C41", "U+1C42", "U+1C43", "U+1C44", "U+1C45", "U+1C46",
     "U+1C47", "U+1C48", "U+1C49", "U+1C50", "U+1C51", "U+1C52", "U+1C53", "U+1C54",
     "U+1C55", "U+1C56", "U+1C57", "U+1C58", "U+1C59", "U+2070", "U+2074", "U+2075",
     "U+2076", "U+2077", "U+2078", "U+2079", "U+2080", "U+2081", "U+2082", "U+2083",
     "U+2084", "U+2085", "U+2086", "U+2087", "U+2088", "U+2089", "U+2150", "U+2151",
     "U+2152", "U+2153", "U+2154", "U+2155", "U+2156", "U+2157", "U+2158", "U+2159",
     "U+215A", "U+215B", "U+215C", "U+215D", "U+215E", "U+215F", "U+2160", "U+2161",
     "U+2162", "U+2163", "U+2164", "U+2165", "U+2166", "U+2167", "U+2168", "U+2169",
     "U+216A", "U+216B", "U+216C", "U+216D", "U+216E", "U+216F", "U+2170", "U+2171",
     "U+2172", "U+2173", "U+2174", "U+2175", "U+2176", "U+2177", "U+2178", "U+2179",
     "U+217A", "U+217B", "U+217C", "U+217D", "U+217E", "U+217F", "U+2180", "U+2181",
     "U+2182", "U+2185", "U+2186", "U+2187", "U+2188", "U+2189", "U+2460", "U+2461",
     "U+2462", "U+2463", "U+2464", "U+2465", "U+2466", "U+2467", "U+2468", "U+2469",
     "U+246A", "U+246B", "U+246C", "U+246D", "U+246E", "U+246F", "U+2470", "U+2471",
     "U+2472", "U+2473", "U+2474", "U+2475", "U+2476", "U+2477", "U+2478", "U+2479",
     "U+247A", "U+247B", "U+247C", "U+247D", "U+247E", "U+247F", "U+2480", "U+2481",
     "U+2482", "U+2483", "U+2484", "U+2485", "U+2486", "U+2487", "U+2488", "U+2489",
     "U+248A", "U+248B", "U+248C", "U+248D", "U+248E", "U+248F", "U+2490", "U+2491",
     "U+2492", "U+2493", "U+2494", "U+2495", "U+2496", "U+2497", "U+2498", "U+2499",
     "U+249A", "U+249B", "U+24EA", "U+24EB", "U+24EC", "U+24ED", "U+24EE", "U+24EF",
     "U+24F0", "U+24F1", "U+24F2", "U+24F3", "U+24F4", "U+24F5", "U+24F6", "U+24F7",
     "U+24F8", "U+24F9", "U+24FA", "U+24FB", "U+24FC", "U+24FD", "U+24FE", "U+24FF",
     "U+2776", "U+2777", "U+2778", "U+2779", "U+277A", "U+277B", "U+277C", "U+277D",
     "U+277E", "U+277F", "U+2780", "U+2781", "U+2782", "U+2783", "U+2784", "U+2785",
     "U+2786", "U+2787", "U+2788", "U+2789", "U+278A", "U+278B", "U+278C", "U+278D",
     "U+278E", "U+278F", "U+2790", "U+2791", "U+2792", "U+2793", "U+2CFD", "U+3007",
     "U+3021", "U+3022", "U+3023", "U+3024", "U+3025", "U+3026", "U+3027", "U+3028",
     "U+3029", "U+3038", "U+3039", "U+303A", "U+3192", "U+3193", "U+3194", "U+3195",
     "U+3220", "U+3221", "U+3222", "U+3223", "U+3224", "U+3225", "U+3226", "U+3227",
     "U+3228", "U+3229", "U+3248", "U+3249", "U+324A", "U+324B", "U+324C", "U+324D",
     "U+324E", "U+324F", "U+3251", "U+3252", "U+3253", "U+3254", "U+3255", "U+3256",
     "U+3257", "U+3258", "U+3259", "U+325A", "U+325B", "U+325C", "U+325D", "U+325E",
     "U+325F", "U+3280", "U+3281", "U+3282", "U+3283", "U+3284", "U+3285", "U+3286",
     "U+3287", "U+3288", "U+3289", "U+32B1", "U+32B2", "U+32B3", "U+32B4", "U+32B5",
     "U+32B6", "U+32B7", "U+32B8", "U+32B9", "U+32BA", "U+32BB", "U+32BC", "U+32BD",
     "U+32BE", "U+32BF", "U+3405", "U+3483", "U+382A", "U+3B4D", "U+4E00", "U+4E03",
     "U+4E07", "U+4E09", "U+4E5D", "U+4E8C", "U+4E94", "U+4E96", "U+4EBF", "U+4EC0",
     "U+4EDF", "U+4EE8", "U+4F0D", "U+4F70", "U+5104", "U+5146", "U+5169", "U+516B",
     "U+516D", "U+5341", "U+5343", "U+5344", "U+5345", "U+534C", "U+53C1", "U+53C2",
     "U+53C3", "U+53C4", "U+56DB", "U+58F1", "U+58F9", "U+5E7A", "U+5EFE", "U+5EFF",
     "U+5F0C", "U+5F0D", "U+5F0E", "U+5F10", "U+62FE", "U+634C", "U+67D2", "U+6F06",
     "U+7396", "U+767E", "U+8086", "U+842C", "U+8CAE", "U+8CB3", "U+8D30", "U+9621",
     "U+9646", "U+964C", "U+9678", "U+96F6", "U+A620", "U+A621", "U+A622", "U+A623",
     "U+A624", "U+A625", "U+A626", "U+A627", "U+A628", "U+A629", "U+A6E6", "U+A6E7",
     "U+A6E8", "U+A6E9", "U+A6EA", "U+A6EB", "U+A6EC", "U+A6ED", "U+A6EE", "U+A6EF",
     "U+A830", "U+A831", "U+A832", "U+A833", "U+A834", "U+A835", "U+A8D0", "U+A8D1",
     "U+A8D2", "U+A8D3", "U+A8D4", "U+A8D5", "U+A8D6", "U+A8D7", "U+A8D8", "U+A8D9",
     "U+A900", "U+A901", "U+A902", "U+A903", "U+A904", "U+A905", "U+A906", "U+A907",
     "U+A908", "U+A909", "U+A9D0", "U+A9D1", "U+A9D2", "U+A9D3", "U+A9D4", "U+A9D5",
     "U+A9D6", "U+A9D7", "U+A9D8", "U+A9D9", "U+A9F0", "U+A9F1", "U+A9F2", "U+A9F3",
     "U+A9F4", "U+A9F5", "U+A9F6", "U+A9F7", "U+A9F8", "U+A9F9", "U+AA50", "U+AA51",
     "U+AA52", "U+AA53", "U+AA54", "U+AA55", "U+AA56", "U+AA57", "U+AA58", "U+AA59",
     "U+ABF0", "U+ABF1", "U+ABF2", "U+ABF3", "U+ABF4", "U+ABF5", "U+ABF6", "U+ABF7",
     "U+ABF8", "U+ABF9", "U+F96B", "U+F973", "U+F978", "U+F9B2", "U+F9D1", "U+F9D3",
     "U+F9FD", "U+FF10", "U+FF11", "U+FF12", "U+FF13", "U+FF14", "U+FF15", "U+FF16",
     "U+FF17", "U+FF18", "U+FF19", "U+10107", "U+10108", "U+10109", "U+1010A", "U+1010B",
     "U+1010C", "U+1010D", "U+1010E", "U+1010F", "U+10110", "U+10111", "U+10112",
     "U+10113", "U+10114", "U+10115", "U+10116", "U+10117", "U+10118", "U+10119",
     "U+1011A", "U+1011B", "U+1011C", "U+1011D", "U+1011E", "U+1011F", "U+10120",
     "U+10121", "U+10122", "U+10123", "U+10124", "U+10125", "U+10126", "U+10127",
     "U+10128", "U+10129", "U+1012A", "U+1012B", "U+1012C", "U+1012D", "U+1012E",
     "U+1012F", "U+10130", "U+10131", "U+10132", "U+10133", "U+10140", "U+10141",
     "U+10142", "U+10143", "U+10144", "U+10145", "U+10146", "U+10147", "U+10148",
     "U+10149", "U+1014A", "U+1014B", "U+1014C", "U+1014D", "U+1014E", "U+1014F",
     "U+10150", "U+10151", "U+10152", "U+10153", "U+10154", "U+10155", "U+10156",
     "U+10157", "U+10158", "U+10159", "U+1015A", "U+1015B", "U+1015C", "U+1015D",
     "U+1015E", "U+1015F", "U+10160", "U+10161", "U+10162", "U+10163", "U+10164",
     "U+10165", "U+10166", "U+10167", "U+10168", "U+10169", "U+1016A", "U+1016B",
     "U+1016C", "U+1016D", "U+1016E", "U+1016F", "U+10170", "U+10171", "U+10172",
     "U+10173", "U+10174", "U+10175", "U+10176", "U+10177", "U+10178", "U+1018A",
     "U+1018B", "U+102E1", "U+102E2", "U+102E3", "U+102E4", "U+102E5", "U+102E6",
     "U+102E7", "U+102E8", "U+102E9", "U+102EA", "U+102EB", "U+102EC", "U+102ED",
     "U+102EE", "U+102EF", "U+102F0", "U+102F1", "U+102F2", "U+102F3", "U+102F4",
     "U+102F5", "U+102F6", "U+102F7", "U+102F8", "U+102F9", "U+102FA", "U+102FB",
     "U+10320", "U+10321", "U+10322", "U+10323", "U+10341", "U+1034A", "U+103D1",
     "U+103D2", "U+103D3", "U+103D4", "U+103D5", "U+104A0", "U+104A1", "U+104A2",
     "U+104A3", "U+104A4", "U+104A5", "U+104A6", "U+104A7", "U+104A8", "U+104A9",
     "U+10858", "U+10859", "U+1085A", "U+1085B", "U+1085C", "U+1085D", "U+1085E",
     "U+1085F", "U+10879", "U+1087A", "U+1087B", "U+1087C", "U+1087D", "U+1087E",
     "U+1087F", "U+108A7", "U+108A8", "U+108A9", "U+108AA", "U+108AB", "U+108AC",
     "U+108AD", "U+108AE", "U+108AF", "U+108FB", "U+108FC", "U+108FD", "U+108FE",
     "U+108FF", "U+10916", "U+10917", "U+10918", "U+10919", "U+1091A", "U+1091B",
     "U+109BC", "U+109BD", "U+109C0", "U+109C1", "U+109C2", "U+109C3", "U+109C4",
     "U+109C5", "U+109C6", "U+109C7", "U+109C8", "U+109C9", "U+109CA", "U+109CB",
     "U+109CC", "U+109CD", "U+109CE", "U+109CF", "U+109D2", "U+109D3", "U+109D4",
     "U+109D5", "U+109D6", "U+109D7", "U+109D8", "U+109D9", "U+109DA", "U+109DB",
     "U+109DC", "U+109DD", "U+109DE", "U+109DF", "U+109E0", "U+109E1", "U+109E2",
     "U+109E3", "U+109E4", "U+109E5", "U+109E6", "U+109E7", "U+109E8", "U+109E9",
     "U+109EA", "U+109EB", "U+109EC", "U+109ED", "U+109EE", "U+109EF", "U+109F0",
     "U+109F1", "U+109F2", "U+109F3", "U+109F4", "U+109F5", "U+109F6", "U+109F7",
     "U+109F8", "U+109F9", "U+109FA", "U+109FB", "U+109FC", "U+109FD", "U+109FE",
     "U+109FF", "U+10A40", "U+10A41", "U+10A42", "U+10A43", "U+10A44", "U+10A45",
     "U+10A46", "U+10A47", "U+10A48", "U+10A7D", "U+10A7E", "U+10A9D", "U+10A9E",
     "U+10A9F", "U+10AEB", "U+10AEC", "U+10AED", "U+10AEE", "U+10AEF", "U+10B58",
     "U+10B59", "U+10B5A", "U+10B5B", "U+10B5C", "U+10B5D", "U+10B5E", "U+10B5F",
     "U+10B78", "U+10B79", "U+10B7A", "U+10B7B", "U+10B7C", "U+10B7D", "U+10B7E",
     "U+10B7F", "U+10BA9", "U+10BAA", "U+10BAB", "U+10BAC", "U+10BAD", "U+10BAE",
     "U+10BAF", "U+10CFA", "U+10CFB", "U+10CFC", "U+10CFD", "U+10CFE", "U+10CFF",
     "U+10D30", "U+10D31", "U+10D32", "U+10D33", "U+10D34", "U+10D35", "U+10D36",
     "U+10D37", "U+10D38", "U+10D39", "U+10E60", "U+10E61", "U+10E62", "U+10E63",
     "U+10E64", "U+10E65", "U+10E66", "U+10E67", "U+10E68", "U+10E69", "U+10E6A",
     "U+10E6B", "U+10E6C", "U+10E6D", "U+10E6E", "U+10E6F", "U+10E70", "U+10E71",
     "U+10E72", "U+10E73", "U+10E74", "U+10E75", "U+10E76", "U+10E77", "U+10E78",
     "U+10E79", "U+10E7A", "U+10E7B", "U+10E7C", "U+10E7D", "U+10E7E", "U+10F1D",
     "U+10F1E", "U+10F1F", "U+10F20", "U+10F21", "U+10F22", "U+10F23", "U+10F24",
     "U+10F25", "U+10F26", "U+10F51", "U+10F52", "U+10F53", "U+10F54", "U+10FC5",
     "U+10FC6", "U+10FC7", "U+10FC8", "U+10FC9", "U+10FCA", "U+10FCB", "U+11052",
     "U+11053", "U+11054", "U+11055", "U+11056", "U+11057", "U+11058", "U+11059",
     "U+1105A", "U+1105B", "U+1105C", "U+1105D", "U+1105E", "U+1105F", "U+11060",
     "U+11061", "U+11062", "U+11063", "U+11064", "U+11065", "U+11066", "U+11067",
     "U+11068", "U+11069", "U+1106A", "U+1106B", "U+1106C", "U+1106D", "U+1106E",
     "U+1106F", "U+110F0", "U+110F1", "U+110F2", "U+110F3", "U+110F4", "U+110F5",
     "U+110F6", "U+110F7", "U+110F8", "U+110F9", "U+11136", "U+11137", "U+11138",
     "U+11139", "U+1113A", "U+1113B", "U+1113C", "U+1113D", "U+1113E", "U+1113F",
     "U+111D0", "U+111D1", "U+111D2", "U+111D3", "U+111D4", "U+111D5", "U+111D6",
     "U+111D7", "U+111D8", "U+111D9", "U+111E1", "U+111E2", "U+111E3", "U+111E4",
     "U+111E5", "U+111E6", "U+111E7", "U+111E8", "U+111E9", "U+111EA", "U+111EB",
     "U+111EC", "U+111ED", "U+111EE", "U+111EF", "U+111F0", "U+111F1", "U+111F2",
     "U+111F3", "U+111F4", "U+112F0", "U+112F1", "U+112F2", "U+112F3", "U+112F4",
     "U+112F5", "U+112F6", "U+112F7", "U+112F8", "U+112F9", "U+11450", "U+11451",
     "U+11452", "U+11453", "U+11454", "U+11455", "U+11456", "U+11457", "U+11458",
     "U+11459", "U+114D0", "U+114D1", "U+114D2", "U+114D3", "U+114D4", "U+114D5",
     "U+114D6", "U+114D7", "U+114D8", "U+114D9", "U+11650", "U+11651", "U+11652",
     "U+11653", "U+11654", "U+11655", "U+11656", "U+11657", "U+11658", "U+11659",
     "U+116C0", "U+116C1", "U+116C2", "U+116C3", "U+116C4", "U+116C5", "U+116C6",
     "U+116C7", "U+116C8", "U+116C9", "U+11730", "U+11731", "U+11732", "U+11733",
     "U+11734", "U+11735", "U+11736", "U+11737", "U+11738", "U+11739", "U+1173A",
     "U+1173B", "U+118E0", "U+118E1", "U+118E2", "U+118E3", "U+118E4", "U+118E5",
     "U+118E6", "U+118E7", "U+118E8", "U+118E9", "U+118EA", "U+118EB", "U+118EC",
     "U+118ED", "U+118EE", "U+118EF", "U+118F0", "U+118F1", "U+118F2", "U+11950",
     "U+11951", "U+11952", "U+11953", "U+11954", "U+11955", "U+11956", "U+11957",
     "U+11958", "U+11959", "U+11C50", "U+11C51", "U+11C52", "U+11C53", "U+11C54",
     "U+11C55", "U+11C56", "U+11C57", "U+11C58", "U+11C59", "U+11C5A", "U+11C5B",
     "U+11C5C", "U+11C5D", "U+11C5E", "U+11C5F", "U+11C60", "U+11C61", "U+11C62",
     "U+11C63", "U+11C64", "U+11C65", "U+11C66", "U+11C67", "U+11C68", "U+11C69",
     "U+11C6A", "U+11C6B", "U+11C6C", "U+11D50", "U+11D51", "U+11D52", "U+11D53",
     "U+11D54", "U+11D55", "U+11D56", "U+11D57", "U+11D58", "U+11D59", "U+11DA0",
     "U+11DA1", "U+11DA2", "U+11DA3", "U+11DA4", "U+11DA5", "U+11DA6", "U+11DA7",
     "U+11DA8", "U+11DA9", "U+11FC0", "U+11FC1", "U+11FC2", "U+11FC3", "U+11FC4",
     "U+11FC5", "U+11FC6", "U+11FC7", "U+11FC8", "U+11FC9", "U+11FCA", "U+11FCB",
     "U+11FCC", "U+11FCD", "U+11FCE", "U+11FCF", "U+11FD0", "U+11FD1", "U+11FD2",
     "U+11FD3", "U+11FD4", "U+12400", "U+12401", "U+12402", "U+12403", "U+12404",
     "U+12405", "U+12406", "U+12407", "U+12408", "U+12409", "U+1240A", "U+1240B",
     "U+1240C", "U+1240D", "U+1240E", "U+1240F", "U+12410", "U+12411", "U+12412",
     "U+12413", "U+12414", "U+12415", "U+12416", "U+12417", "U+12418", "U+12419",
     "U+1241A", "U+1241B", "U+1241C", "U+1241D", "U+1241E", "U+1241F", "U+12420",
     "U+12421", "U+12422", "U+12423", "U+12424", "U+12425", "U+12426", "U+12427",
     "U+12428", "U+12429", "U+1242A", "U+1242B", "U+1242C", "U+1242D", "U+1242E",
     "U+1242F", "U+12430", "U+12431", "U+12432", "U+12433", "U+12434", "U+12435",
     "U+12436", "U+12437", "U+12438", "U+12439", "U+1243A", "U+1243B", "U+1243C",
     "U+1243D", "U+1243E", "U+1243F", "U+12440", "U+12441", "U+12442", "U+12443",
     "U+12444", "U+12445", "U+12446", "U+12447", "U+12448", "U+12449", "U+1244A",
     "U+1244B", "U+1244C", "U+1244D", "U+1244E", "U+1244F", "U+12450", "U+12451",
     "U+12452", "U+12453", "U+12454", "U+12455", "U+12456", "U+12457", "U+12458",
     "U+12459", "U+1245A", "U+1245B", "U+1245C", "U+1245D", "U+1245E", "U+1245F",
     "U+12460", "U+12461", "U+12462", "U+12463", "U+12464", "U+12465", "U+12466",
     "U+12467", "U+12468", "U+12469", "U+1246A", "U+1246B", "U+1246C", "U+1246D",
     "U+1246E", "U+16A60", "U+16A61", "U+16A62", "U+16A63", "U+16A64", "U+16A65",
     "U+16A66", "U+16A67", "U+16A68", "U+16A69", "U+16AC0", "U+16AC1", "U+16AC2",
     "U+16AC3", "U+16AC4", "U+16AC5", "U+16AC6", "U+16AC7", "U+16AC8", "U+16AC9",
     "U+16B50", "U+16B51", "U+16B52", "U+16B53", "U+16B54", "U+16B55", "U+16B56",
     "U+16B57", "U+16B58", "U+16B59", "U+16B5B", "U+16B5C", "U+16B5D", "U+16B5E",
     "U+16B5F", "U+16B60", "U+16B61", "U+16E80", "U+16E81", "U+16E82", "U+16E83",
     "U+16E84", "U+16E85", "U+16E86", "U+16E87", "U+16E88", "U+16E89", "U+16E8A",
     "U+16E8B", "U+16E8C", "U+16E8D", "U+16E8E", "U+16E8F", "U+16E90", "U+16E91",
     "U+16E92", "U+16E93", "U+16E94", "U+16E95", "U+16E96", "U+1D2E0", "U+1D2E1",
     "U+1D2E2", "U+1D2E3", "U+1D2E4", "U+1D2E5", "U+1D2E6", "U+1D2E7", "U+1D2E8",
     "U+1D2E9", "U+1D2EA", "U+1D2EB", "U+1D2EC", "U+1D2ED", "U+1D2EE", "U+1D2EF",
     "U+1D2F0", "U+1D2F1", "U+1D2F2", "U+1D2F3", "U+1D360", "U+1D361", "U+1D362",
     "U+1D363", "U+1D364", "U+1D365", "U+1D366", "U+1D367", "U+1D368", "U+1D369",
     "U+1D36A", "U+1D36B", "U+1D36C", "U+1D36D", "U+1D36E", "U+1D36F", "U+1D370",
     "U+1D371", "U+1D372", "U+1D373", "U+1D374", "U+1D375", "U+1D376", "U+1D377",
     "U+1D378", "U+1D7CE", "U+1D7CF", "U+1D7D0", "U+1D7D1", "U+1D7D2", "U+1D7D3",
     "U+1D7D4", "U+1D7D5", "U+1D7D6", "U+1D7D7", "U+1D7D8", "U+1D7D9", "U+1D7DA",
     "U+1D7DB", "U+1D7DC", "U+1D7DD", "U+1D7DE", "U+1D7DF", "U+1D7E0", "U+1D7E1",
     "U+1D7E2", "U+1D7E3", "U+1D7E4", "U+1D7E5", "U+1D7E6", "U+1D7E7", "U+1D7E8",
     "U+1D7E9", "U+1D7EA", "U+1D7EB", "U+1D7EC", "U+1D7ED", "U+1D7EE", "U+1D7EF",
     "U+1D7F0", "U+1D7F1", "U+1D7F2", "U+1D7F3", "U+1D7F4", "U+1D7F5", "U+1D7F6",
     "U+1D7F7", "U+1D7F8", "U+1D7F9", "U+1D7FA", "U+1D7FB", "U+1D7FC", "U+1D7FD",
     "U+1D7FE", "U+1D7FF", "U+1E140", "U+1E141", "U+1E142", "U+1E143", "U+1E144",
     "U+1E145", "U+1E146", "U+1E147", "U+1E148", "U+1E149", "U+1E2F0", "U+1E2F1",
     "U+1E2F2", "U+1E2F3", "U+1E2F4", "U+1E2F5", "U+1E2F6", "U+1E2F7", "U+1E2F8",
     "U+1E2F9", "U+1E8C7", "U+1E8C8", "U+1E8C9", "U+1E8CA", "U+1E8CB", "U+1E8CC",
     "U+1E8CD", "U+1E8CE", "U+1E8CF", "U+1E950", "U+1E951", "U+1E952", "U+1E953",
     "U+1E954", "U+1E955", "U+1E956", "U+1E957", "U+1E958", "U+1E959", "U+1EC71",
     "U+1EC72", "U+1EC73", "U+1EC74", "U+1EC75", "U+1EC76", "U+1EC77", "U+1EC78",
     "U+1EC79", "U+1EC7A", "U+1EC7B", "U+1EC7C", "U+1EC7D", "U+1EC7E", "U+1EC7F",
     "U+1EC80", "U+1EC81", "U+1EC82", "U+1EC83", "U+1EC84", "U+1EC85", "U+1EC86",
     "U+1EC87", "U+1EC88", "U+1EC89", "U+1EC8A", "U+1EC8B", "U+1EC8C", "U+1EC8D",
     "U+1EC8E", "U+1EC8F", "U+1EC90", "U+1EC91", "U+1EC92", "U+1EC93", "U+1EC94",
     "U+1EC95", "U+1EC96", "U+1EC97", "U+1EC98", "U+1EC99", "U+1EC9A", "U+1EC9B",
     "U+1EC9C", "U+1EC9D", "U+1EC9E", "U+1EC9F", "U+1ECA0", "U+1ECA1", "U+1ECA2",
     "U+1ECA3", "U+1ECA4", "U+1ECA5", "U+1ECA6", "U+1ECA7", "U+1ECA8", "U+1ECA9",
     "U+1ECAA", "U+1ECAB", "U+1ECAD", "U+1ECAE", "U+1ECAF", "U+1ECB1", "U+1ECB2",
     "U+1ECB3", "U+1ECB4", "U+1ED01", "U+1ED02", "U+1ED03", "U+1ED04", "U+1ED05",
     "U+1ED06", "U+1ED07", "U+1ED08", "U+1ED09", "U+1ED0A", "U+1ED0B", "U+1ED0C",
     "U+1ED0D", "U+1ED0E", "U+1ED0F", "U+1ED10", "U+1ED11", "U+1ED12", "U+1ED13",
     "U+1ED14", "U+1ED15", "U+1ED16", "U+1ED17", "U+1ED18", "U+1ED19", "U+1ED1A",
     "U+1ED1B", "U+1ED1C", "U+1ED1D", "U+1ED1E", "U+1ED1F", "U+1ED20", "U+1ED21",
     "U+1ED22", "U+1ED23", "U+1ED24", "U+1ED25", "U+1ED26", "U+1ED27", "U+1ED28",
     "U+1ED29", "U+1ED2A", "U+1ED2B", "U+1ED2C", "U+1ED2D", "U+1ED2F", "U+1ED30",
     "U+1ED31", "U+1ED32", "U+1ED33", "U+1ED34", "U+1ED35", "U+1ED36", "U+1ED37",
     "U+1ED38", "U+1ED39", "U+1ED3A", "U+1ED3B", "U+1ED3C", "U+1ED3D", "U+1F100",
     "U+1F101", "U+1F102", "U+1F103", "U+1F104", "U+1F105", "U+1F106", "U+1F107",
     "U+1F108", "U+1F109", "U+1F10A", "U+1F10B", "U+1F10C", "U+1FBF0", "U+1FBF1",
     "U+1FBF2", "U+1FBF3", "U+1FBF4", "U+1FBF5", "U+1FBF6", "U+1FBF7", "U+1FBF8",
     "U+1FBF9", "U+20001", "U+20064", "U+200E2", "U+20121", "U+2092A", "U+20983",
     "U+2098C", "U+2099C", "U+20AEA", "U+20AFD", "U+20B19", "U+22390", "U+22998",
     "U+23B1B", "U+2626D", "U+2F890"}

LowerLetters == <<"a", "b", "c", "d", "e", "f", "g", "h", "i", "j", "k", "l", "m",
                  "n", "o", "p", "q", "r", "s", "t", "u", "v", "w", "x", "y", "z">>
UpperLetters == <<"A", "B", "C", "D", "E", "F", "G", "H", "I", "J", "K", "L", "M",
                  "N", "O", "P", "Q", "R", "S", "T", "U", "V", "W", "X", "Y", "Z">>

\* str.upper() of every character outside ASCII that it changes, as the
\* one, two or three characters it becomes (Unicode 14.0).
UpperTable ==
    {<<"U+00B5", <<"U+039C">>>>, <<"U+00DF", <<"S", "S">>>>, <<"U+00E0", <<"U+00C0">>>>,
     <<"U+00E1", <<"U+00C1">>>>, <<"U+00E2", <<"U+00C2">>>>, <<"U+00E3", <<"U+00C3">>>>,
     <<"U+00E4", <<"U+00C4">>>>, <<"U+00E5", <<"U+00C5">>>>, <<"U+00E6", <<"U+00C6">>>>,
     <<"U+00E7", <<"U+00C7">>>>, <<"U+00E8", <<"U+00C8">>>>, <<"U+00E9", <<"U+00C9">>>>,
     <<"U+00EA", <<"U+00CA">>>>, <<"U+00EB", <<"U+00CB">>>>, <<"U+00EC", <<"U+00CC">>>>,
     <<"U+00ED", <<"U+00CD">>>>, <<"U+00EE", <<"U+00CE">>>>, <<"U+00EF", <<"U+00CF">>>>,
     <<"U+00F0", <<"U+00D0">>>>, <<"U+00F1", <<"U+00D1">>>>, <<"U+00F2", <<"U+00D2">>>>,
     <<"U+00F3", <<"U+00D3">>>>, <<"U+00F4", <<"U+00D4">>>>, <<"U+00F5", <<"U+00D5">>>>,
     <<"U+00F6", <<"U+00D6">>>>, <<"U+00F8", <<"U+00D8">>>>, <<"U+00F9", <<"U+00D9">>>>,
     <<"U+00FA", <<"U+00DA">>>>, <<"U+00FB", <<"U+00DB">>>>, <<"U+00FC", <<"U+00DC">>>>,
     <<"U+00FD", <<"U+00DD">>>>, <<"U+00FE", <<"U+00DE">>>>, <<"U+00FF", <<"U+0178">>>>,
     <<"U+0101", <<"U+0100">>>>, <<"U+0103", <<"U+0102">>>>, <<"U+0105", <<"U+0104">>>>,
     <<"U+0107", <<"U+0106">>>>, <<"U+0109", <<"U+0108">>>>, <<"U+010B", <<"U+010A">>>>,
     <<"U+010D", <<"U+010C">>>>, <<"U+010F", <<"U+010E">>>>, <<"U+0111", <<"U+0110">>>>,
     <<"U+0113", <<"U+0112">>>>, <<"U+0115", <<"U+0114">>>>, <<"U+0117", <<"U+0116">>>>,
     <<"U+0119", <<"U+0118">>>>, <<"U+011B", <<"U+011A">>>>, <<"U+011D", <<"U+011C">>>>,
     <<"U+011F", <<"U+011E">>>>, <<"U+0121", <<"U+0120">>>>, <<"U+0123", <<"U+0122">>>>,
     <<"U+0125", <<"U+0124">>>>, <<"U+0127", <<"U+0126">>>>, <<"U+0129", <<"U+0128">>>>,
     <<"U+012B", <<"U+012A">>>>, <<"U+012D", <<"U+012C">>>>, <<"U+012F", <<"U+012E">>>>,
     <<"U+0131", <<"I">>>>, <<"U+0133", <<"U+0132">>>>, <<"U+0135", <<"U+0134">>>>,
     <<"U+0137", <<"U+0136">>>>, <<"U+013A", <<"U+0139">>>>, <<"U+013C", <<"U+013B">>>>,
     <<"U+013E", <<"U+013D">>>>, <<"U+0140", <<"U+013F">>>>, <<"U+0142", <<"U+0141">>>>,
     <<"U+0144", <<"U+0143">>>>, <<"U+0146", <<"U+0145">>>>, <<"U+0148", <<"U+0147">>>>,
     <<"U+0149", <<"U+02BC", "N">>>>, <<"U+014B", <<"U+014A">>>>,
     <<"U+014D", <<"U+014C">>>>, <<"U+014F", <<"U+014E">>>>, <<"U+0151", <<"U+0150">>>>,
     <<"U+0153", <<"U+0152">>>>, <<"U+0155", <<"U+0154">>>>, <<"U+0157", <<"U+0156">>>>,
     <<"U+0159", <<"U+0158">>>>, <<"U+015B", <<"U+015A">>>>, <<"U+015D", <<"U+015C">>>>,
     <<"U+015F", <<"U+015E">>>>, <<"U+0161", <<"U+0160">>>>, <<"U+0163", <<"U+0162">>>>,
     <<"U+0165", <<"U+0164">>>>, <<"U+0167", <<"U+0166">>>>, <<"U+0169", <<"U+0168">>>>,
     <<"U+016B", <<"U+016A">>>>, <<"U+016D", <<"U+016C">>>>, <<"U+016F", <<"U+016E">>>>,
     <<"U+0171", <<"U+0170">>>>, <<"U+0173", <<"U+0172">>>>, <<"U+0175", <<"U+0174">>>>,
     <<"U+0177", <<"U+0176">>>>, <<"U+017A", <<"U+0179">>>>, <<"U+017C", <<"U+017B">>>>,
     <<"U+017E", <<"U+017D">>>>, <<"U+017F", <<"S">>>>, <<"U+0180", <<"U+0243">>>>,
     <<"U+0183", <<"U+0182">>>>, <<"U+0185", <<"U+0184">>>>, <<"U+0188", <<"U+0187">>>>,
     <<"U+018C", <<"U+018B">>>>, <<"U+0192", <<"U+0191">>>>, <<"U+0195", <<"U+01F6">>>>,
     <<"U+0199", <<"U+0198">>>>, <<"U+019A", <<"U+023D">>>>, <<"U+019E", <<"U+0220">>>>,
     <<"U+01A1", <<"U+01A0">>>>, <<"U+01A3", <<"U+01A2">>>>, <<"U+01A5", <<"U+01A4">>>>,
     <<"U+01A8", <<"U+01A7">>>>, <<"U+01AD", <<"U+01AC">>>>, <<"U+01B0", <<"U+01AF">>>>,
     <<"U+01B4", <<"U+01B3">>>>, <<"U+01B6", <<"U+01B5">>>>, <<"U+01B9", <<"U+01B8">>>>,
     <<"U+01BD", <<"U+01BC">>>>, <<"U+01BF", <<"U+01F7">>>>, <<"U+01C5", <<"U+01C4">>>>,
     <<"U+01C6", <<"U+01C4">>>>, <<"U+01C8", <<"U+01C7">>>>, <<"U+01C9", <<"U+01C7">>>>,
     <<"U+01CB", <<"U+01CA">>>>, <<"U+01CC", <<"U+01CA">>>>, <<"U+01CE", <<"U+01CD">>>>,
     <<"U+01D0", <<"U+01CF">>>>, <<"U+01D2", <<"U+01D1">>>>, <<"U+01D4", <<"U+01D3">>>>,
     <<"U+01D6", <<"U+01D5">>>>, <<"U+01D8", <<"U+01D7">>>>, <<"U+01DA", <<"U+01D9">>>>,
     <<"U+01DC", <<"U+01DB">>>>, <<"U+01DD", <<"U+018E">>>>, <<"U+01DF", <<"U+01DE">>>>,
     <<"U+01E1", <<"U+01E0">>>>, <<"U+01E3", <<"U+01E2">>>>, <<"U+01E5", <<"U+01E4">>>>,
     <<"U+01E7", <<"U+01E6">>>>, <<"U+01E9", <<"U+01E8">>>>, <<"U+01EB", <<"U+01EA">>>>,
     <<"U+01ED", <<"U+01EC">>>>, <<"U+01EF", <<"U+01EE">>>>,
     <<"U+01F0", <<"J", "U+030C">>>>, <<"U+01F2", <<"U+01F1">>>>,
     <<"U+01F3", <<"U+01F1">>>>, <<"U+01F5", <<"U+01F4">>>>, <<"U+01F9", <<"U+01F8">>>>,
     <<"U+01FB", <<"U+01FA">>>>, <<"U+01FD", <<"U+01FC">>>>, <<"U+01FF", <<"U+01FE">>>>,
     <<"U+0201", <<"U+0200">>>>, <<"U+0203", <<"U+0202">>>>, <<"U+0205", <<"U+0204">>>>,
     <<"U+0207", <<"U+0206">>>>, <<"U+0209", <<"U+0208">>>>, <<"U+020B", <<"U+020A">>>>,
     <<"U+020D", <<"U+020C">>>>, <<"U+020F", <<"U+020E">>>>, <<"U+0211", <<"U+0210">>>>,
     <<"U+0213", <<"U+0212">>>>, <<"U+0215", <<"U+0214">>>>, <<"U+0217", <<"U+0216">>>>,
     <<"U+0219", <<"U+0218">>>>, <<"U+021B", <<"U+021A">>>>, <<"U+021D", <<"U+021C">>>>,
     <<"U+021F", <<"U+021E">>>>, <<"U+0223", <<"U+0222">>>>, <<"U+0225", <<"U+0224">>>>,
     <<"U+0227", <<"U+0226">>>>, <<"U+0229", <<"U+0228">>>>, <<"U+022B", <<"U+022A">>>>,
     <<"U+022D", <<"U+022C">>>>, <<"U+022F", <<"U+022E">>>>, <<"U+0231", <<"U+0230">>>>,
     <<"U+0233", <<"U+0232">>>>, <<"U+023C", <<"U+023B">>>>, <<"U+023F", <<"U+2C7E">>>>,
     <<"U+0240", <<"U+2C7F">>>>, <<"U+0242", <<"U+0241">>>>, <<"U+0247", <<"U+0246">>>>,
     <<"U+0249", <<"U+0248">>>>, <<"U+024B", <<"U+024A">>>>, <<"U+024D", <<"U+024C">>>>,
     <<"U+024F", <<"U+024E">>>>, <<"U+0250", <<"U+2C6F">>>>, <<"U+0251", <<"U+2C6D">>>>,
     <<"U+0252", <<"U+2C70">>>>, <<"U+0253", <<"U+0181">>>>, <<"U+0254", <<"U+0186">>>>,
     <<"U+0256", <<"U+0189">>>>, <<"U+0257", <<"U+018A">>>>, <<"U+0259", <<"U+018F">>>>,
     <<"U+025B", <<"U+0190">>>>, <<"U+025C", <<"U+A7AB">>>>, <<"U+0260", <<"U+0193">>>>,
     <<"U+0261", <<"U+A7AC">>>>, <<"U+0263", <<"U+0194">>>>, <<"U+0265", <<"U+A78D">>>>,
     <<"U+0266", <<"U+A7AA">>>>, <<"U+0268", <<"U+0197">>>>, <<"U+0269", <<"U+0196">>>>,
     <<"U+026A", <<"U+A7AE">>>>, <<"U+026B", <<"U+2C62">>>>, <<"U+026C", <<"U+A7AD">>>>,
     <<"U+026F", <<"U+019C">>>>, <<"U+0271", <<"U+2C6E">>>>, <<"U+0272", <<"U+019D">>>>,
     <<"U+0275", <<"U+019F">>>>, <<"U+027D", <<"U+2C64">>>>, <<"U+0280", <<"U+01A6">>>>,
     <<"U+0282", <<"U+A7C5">>>>, <<"U+0283", <<"U+01A9">>>>, <<"U+0287", <<"U+A7B1">>>>,
     <<"U+0288", <<"U+01AE">>>>, <<"U+0289", <<"U+0244">>>>, <<"U+028A", <<"U+01B1">>>>,
     <<"U+028B", <<"U+01B2">>>>, <<"U+028C", <<"U+0245">>>>, <<"U+0292", <<"U+01B7">>>>,
     <<"U+029D", <<"U+A7B2">>>>, <<"U+029E", <<"U+A7B0">>>>, <<"U+0345", <<"U+0399">>>>,
     <<"U+0371", <<"U+0370">>>>, <<"U+0373", <<"U+0372">>>>, <<"U+0377", <<"U+0376">>>>,
     <<"U+037B", <<"U+03FD">>>>, <<"U+037C", <<"U+03FE">>>>, <<"U+037D", <<"U+03FF">>>>,
     <<"U+0390", <<"U+0399", "U+0308", "U+0301">>>>, <<"U+03AC", <<"U+0386">>>>,
     <<"U+03AD", <<"U+0388">>>>, <<"U+03AE", <<"U+0389">>>>, <<"U+03AF", <<"U+038A">>>>,
     <<"U+03B0", <<"U+03A5", "U+0308", "U+0301">>>>, <<"U+03B1", <<"U+0391">>>>,
     <<"U+03B2", <<"U+0392">>>>, <<"U+03B3", <<"U+0393">>>>, <<"U+03B4", <<"U+0394">>>>,
     <<"U+03B5", <<"U+0395">>>>, <<"U+03B6", <<"U+0396">>>>, <<"U+03B7", <<"U+0397">>>>,
     <<"U+03B8", <<"U+0398">>>>, <<"U+03B9", <<"U+0399">>>>, <<"U+03BA", <<"U+039A">>>>,
     <<"U+03BB", <<"U+039B">>>>, <<"U+03BC", <<"U+039C">>>>, <<"U+03BD", <<"U+039D">>>>,
     <<"U+03BE", <<"U+039E">>>>, <<"U+03BF", <<"U+039F">>>>, <<"U+03C0", <<"U+03A0">>>>,
     <<"U+03C1", <<"U+03A1">>>>, <<"U+03C2", <<"U+03A3">>>>, <<"U+03C3", <<"U+03A3">>>>,
     <<"U+03C4", <<"U+03A4">>>>, <<"U+03C5", <<"U+03A5">>>>, <<"U+03C6", <<"U+03A6">>>>,
     <<"U+03C7", <<"U+03A7">>>>, <<"U+03C8", <<"U+03A8">>>>, <<"U+03C9", <<"U+03A9">>>>,
     <<"U+03CA", <<"U+03AA">>>>, <<"U+03CB", <<"U+03AB">>>>, <<"U+03CC", <<"U+038C">>>>,
     <<"U+03CD", <<"U+038E">>>>, <<"U+03CE", <<"U+038F">>>>, <<"U+03D0", <<"U+0392">>>>,
     <<"U+03D1", <<"U+0398">>>>, <<"U+03D5", <<"U+03A6">>>>, <<"U+03D6", <<"U+03A0">>>>,
     <<"U+03D7", <<"U+03CF">>>>, <<"U+03D9", <<"U+03D8">>>>, <<"U+03DB", <<"U+03DA">>>>,
     <<"U+03DD", <<"U+03DC">>>>, <<"U+03DF", <<"U+03DE">>>>, <<"U+03E1", <<"U+03E0">>>>,
     <<"U+03E3", <<"U+03E2">>>>, <<"U+03E5", <<"U+03E4">>>>, <<"U+03E7", <<"U+03E6">>>>,
     <<"U+03E9", <<"U+03E8">>>>, <<"U+03EB", <<"U+03EA">>>>, <<"U+03ED", <<"U+03EC">>>>,
     <<"U+03EF", <<"U+03EE">>>>, <<"U+03F0", <<"U+039A">>>>, <<"U+03F1", <<"U+03A1">>>>,
     <<"U+03F2", <<"U+03F9">>>>, <<"U+03F3", <<"U+037F">>>>, <<"U+03F5", <<"U+0395">>>>,
     <<"U+03F8", <<"U+03F7">>>>, <<"U+03FB", <<"U+03FA">>>>, <<"U+0430", <<"U+0410">>>>,
     <<"U+0431", <<"U+0411">>>>, <<"U+0432", <<"U+0412">>>>, <<"U+0433", <<"U+0413">>>>,
     <<"U+0434", <<"U+0414">>>>, <<"U+0435", <<"U+0415">>>>, <<"U+0436", <<"U+0416">>>>,
     <<"U+0437", <<"U+0417">>>>, <<"U+0438", <<"U+0418">>>>, <<"U+0439", <<"U+0419">>>>,
     <<"U+043A", <<"U+041A">>>>, <<"U+043B", <<"U+041B">>>>, <<"U+043C", <<"U+041C">>>>,
     <<"U+043D", <<"U+041D">>>>, <<"U+043E", <<"U+041E">>>>, <<"U+043F", <<"U+041F">>>>,
     <<"U+0440", <<"U+0420">>>>, <<"U+0441", <<"U+0421">>>>, <<"U+0442", <<"U+0422">>>>,
     <<"U+0443", <<"U+0423">>>>, <<"U+0444", <<"U+0424">>>>, <<"U+0445", <<"U+0425">>>>,
     <<"U+0446", <<"U+0426">>>>, <<"U+0447", <<"U+0427">>>>, <<"U+0448", <<"U+0428">>>>,
     <<"U+0449", <<"U+0429">>>>, <<"U+044A", <<"U+042A">>>>, <<"U+044B", <<"U+042B">>>>,
     <<"U+044C", <<"U+042C">>>>, <<"U+044D", <<"U+042D">>>>, <<"U+044E", <<"U+042E">>>>,
     <<"U+044F", <<"U+042F">>>>, <<"U+0450", <<"U+0400">>>>, <<"U+0451", <<"U+0401">>>>,
     <<"U+0452", <<"U+0402">>>>, <<"U+0453", <<"U+0403">>>>, <<"U+0454", <<"U+0404">>>>,
     <<"U+0455", <<"U+0405">>>>, <<"U+0456", <<"U+0406">>>>, <<"U+0457", <<"U+0407">>>>,
     <<"U+0458", <<"U+0408">>>>, <<"U+0459", <<"U+0409">>>>, <<"U+045A", <<"U+040A">>>>,
     <<"U+045B", <<"U+040B">>>>, <<"U+045C", <<"U+040C">>>>, <<"U+045D", <<"U+040D">>>>,
     <<"U+045E", <<"U+040E">>>>, <<"U+045F", <<"U+040F">>>>, <<"U+0461", <<"U+0460">>>>,
     <<"U+0463", <<"U+0462">>>>, <<"U+0465", <<"U+0464">>>>, <<"U+0467", <<"U+0466">>>>,
     <<"U+0469", <<"U+0468">>>>, <<"U+046B", <<"U+046A">>>>, <<"U+046D", <<"U+046C">>>>,
     <<"U+046F", <<"U+046E">>>>, <<"U+0471", <<"U+0470">>>>, <<"U+0473", <<"U+0472">>>>,
     <<"U+0475", <<"U+0474">>>>, <<"U+0477", <<"U+0476">>>>, <<"U+0479", <<"U+0478">>>>,
     <<"U+047B", <<"U+047A">>>>, <<"U+047D", <<"U+047C">>>>, <<"U+047F", <<"U+047E">>>>,
     <<"U+0481", <<"U+0480">>>>, <<"U+048B", <<"U+048A">>>>, <<"U+048D", <<"U+048C">>>>,
     <<"U+048F", <<"U+048E">>>>, <<"U+0491", <<"U+0490">>>>, <<"U+0493", <<"U+0492">>>>,
     <<"U+0495", <<"U+0494">>>>, <<"U+0497", <<"U+0496">>>>, <<"U+0499", <<"U+0498">>>>,
     <<"U+049B", <<"U+049A">>>>, <<"U+049D", <<"U+049C">>>>, <<"U+049F", <<"U+049E">>>>,
     <<"U+04A1", <<"U+04A0">>>>, <<"U+04A3", <<"U+04A2">>>>, <<"U+04A5", <<"U+04A4">>>>,
     <<"U+04A7", <<"U+04A6">>>>, <<"U+04A9", <<"U+04A8">>>>, <<"U+04AB", <<"U+04AA">>>>,
     <<"U+04AD", <<"U+04AC">>>>, <<"U+04AF", <<"U+04AE">>>>, <<"U+04B1", <<"U+04B0">>>>,
     <<"U+04B3", <<"U+04B2">>>>, <<"U+04B5", <<"U+04B4">>>>, <<"U+04B7", <<"U+04B6">>>>,
     <<"U+04B9", <<"U+04B8">>>>, <<"U+04BB", <<"U+04BA">>>>, <<"U+04BD", <<"U+04BC">>>>,
     <<"U+04BF", <<"U+04BE">>>>, <<"U+04C2", <<"U+04C1">>>>, <<"U+04C4", <<"U+04C3">>>>,
     <<"U+04C6", <<"U+04C5">>>>, <<"U+04C8", <<"U+04C7">>>>, <<"U+04CA", <<"U+04C9">>>>,
     <<"U+04CC", <<"U+04CB">>>>, <<"U+04CE", <<"U+04CD">>>>, <<"U+04CF", <<"U+04C0">>>>,
     <<"U+04D1", <<"U+04D0">>>>, <<"U+04D3", <<"U+04D2">>>>, <<"U+04D5", <<"U+04D4">>>>,
     <<"U+04D7", <<"U+04D6">>>>, <<"U+04D9", <<"U+04D8">>>>, <<"U+04DB", <<"U+04DA">>>>,
     <<"U+04DD", <<"U+04DC">>>>, <<"U+04DF", <<"U+04DE">>>>, <<"U+04E1", <<"U+04E0">>>>,
     <<"U+04E3", <<"U+04E2">>>>, <<"U+04E5", <<"U+04E4">>>>, <<"U+04E7", <<"U+04E6">>>>,
     <<"U+04E9", <<"U+04E8">>>>, <<"U+04EB", <<"U+04EA">>>>, <<"U+04ED", <<"U+04EC">>>>,
     <<"U+04EF", <<"U+04EE">>>>, <<"U+04F1", <<"U+04F0">>>>, <<"U+04F3", <<"U+04F2">>>>,
     <<"U+04F5", <<"U+04F4">>>>, <<"U+04F7", <<"U+04F6">>>>, <<"U+04F9", <<"U+04F8">>>>,
     <<"U+04FB", <<"U+04FA">>>>, <<"U+04FD", <<"U+04FC">>>>, <<"U+04FF", <<"U+04FE">>>>,
     <<"U+0501", <<"U+0500">>>>, <<"U+0503", <<"U+0502">>>>, <<"U+0505", <<"U+0504">>>>,
     <<"U+0507", <<"U+0506">>>>, <<"U+0509", <<"U+0508">>>>, <<"U+050B", <<"U+050A">>>>,
     <<"U+050D", <<"U+050C">>>>, <<"U+050F", <<"U+050E">>>>, <<"U+0511", <<"U+0510">>>>,
     <<"U+0513", <<"U+0512">>>>, <<"U+0515", <<"U+0514">>>>, <<"U+0517", <<"U+0516">>>>,
     <<"U+0519", <<"U+0518">>>>, <<"U+051B", <<"U+051A">>>>, <<"U+051D", <<"U+051C">>>>,
     <<"U+051F", <<"U+051E">>>>, <<"U+0521", <<"U+0520">>>>, <<"U+0523", <<"U+0522">>>>,
     <<"U+0525", <<"U+0524">>>>, <<"U+0527", <<"U+0526">>>>, <<"U+0529", <<"U+0528">>>>,
     <<"U+052B", <<"U+052A">>>>, <<"U+052D", <<"U+052C">>>>, <<"U+052F", <<"U+052E">>>>,
     <<"U+0561", <<"U+0531">>>>, <<"U+0562", <<"U+0532">>>>, <<"U+0563", <<"U+0533">>>>,
     <<"U+0564", <<"U+0534">>>>, <<"U+0565", <<"U+0535">>>>, <<"U+0566", <<"U+0536">>>>,
     <<"U+0567", <<"U+0537">>>>, <<"U+0568", <<"U+0538">>>>, <<"U+0569", <<"U+0539">>>>,
     <<"U+056A", <<"U+053A">>>>, <<"U+056B", <<"U+053B">>>>, <<"U+056C", <<"U+053C">>>>,
     <<"U+056D", <<"U+053D">>>>, <<"U+056E", <<"U+053E">>>>, <<"U+056F", <<"U+053F">>>>,
     <<"U+0570", <<"U+0540">>>>, <<"U+0571", <<"U+0541">>>>, <<"U+0572", <<"U+0542">>>>,
     <<"U+0573", <<"U+0543">>>>, <<"U+0574", <<"U+0544">>>>, <<"U+0575", <<"U+0545">>>>,
     <<"U+0576", <<"U+0546">>>>, <<"U+0577", <<"U+0547">>>>, <<"U+0578", <<"U+0548">>>>,
     <<"U+0579", <<"U+0549">>>>, <<"U+057A", <<"U+054A">>>>, <<"U+057B", <<"U+054B">>>>,
     <<"U+057C", <<"U+054C">>>>, <<"U+057D", <<"U+054D">>>>, <<"U+057E", <<"U+054E">>>>,
     <<"U+057F", <<"U+054F">>>>, <<"U+0580", <<"U+0550">>>>, <<"U+0581", <<"U+0551">>>>,
     <<"U+0582", <<"U+0552">>>>, <<"U+0583", <<"U+0553">>>>, <<"U+0584", <<"U+0554">>>>,
     <<"U+0585", <<"U+0555">>>>, <<"U+0586", <<"U+0556">>>>,
     <<"U+0587", <<"U+0535", "U+0552">>>>, <<"U+10D0", <<"U+1C90">>>>,
     <<"U+10D1", <<"U+1C91">>>>, <<"U+10D2", <<"U+1C92">>>>, <<"U+10D3", <<"U+1C93">>>>,
     <<"U+10D4", <<"U+1C94">>>>, <<"U+10D5", <<"U+1C95">>>>, <<"U+10D6", <<"U+1C96">>>>,
     <<"U+10D7", <<"U+1C97">>>>, <<"U+10D8", <<"U+1C98">>>>, <<"U+10D9", <<"U+1C99">>>>,
     <<"U+10DA", <<"U+1C9A">>>>, <<"U+10DB", <<"U+1C9B">>>>, <<"U+10DC", <<"U+1C9C">>>>,
     <<"U+10DD", <<"U+1C9D">>>>, <<"U+10DE", <<"U+1C9E">>>>, <<"U+10DF", <<"U+1C9F">>>>,
     <<"U+10E0", <<"U+1CA0">>>>, <<"U+10E1", <<"U+1CA1">>>>, <<"U+10E2", <<"U+1CA2">>>>,
     <<"U+10E3", <<"U+1CA3">>>>, <<"U+10E4", <<"U+1CA4">>>>, <<"U+10E5", <<"U+1CA5">>>>,
     <<"U+10E6", <<"U+1CA6">>>>, <<"U+10E7", <<"U+1CA7">>>>, <<"U+10E8", <<"U+1CA8">>>>,
     <<"U+10E9", <<"U+1CA9">>>>, <<"U+10EA", <<"U+1CAA">>>>, <<"U+10EB", <<"U+1CAB">>>>,
     <<"U+10EC", <<"U+1CAC">>>>, <<"U+10ED", <<"U+1CAD">>>>, <<"U+10EE", <<"U+1CAE">>>>,
     <<"U+10EF", <<"U+1CAF">>>>, <<"U+10F0", <<"U+1CB0">>>>, <<"U+10F1", <<"U+1CB1">>>>,
     <<"U+10F2", <<"U+1CB2">>>>, <<"U+10F3", <<"U+1CB3">>>>, <<"U+10F4", <<"U+1CB4">>>>,
     <<"U+10F5", <<"U+1CB5">>>>, <<"U+10F6", <<"U+1CB6">>>>, <<"U+10F7", <<"U+1CB7">>>>,
     <<"U+10F8", <<"U+1CB8">>>>, <<"U+10F9", <<"U+1CB9">>>>, <<"U+10FA", <<"U+1CBA">>>>,
     <<"U+10FD", <<"U+1CBD">>>>, <<"U+10FE", <<"U+1CBE">>>>, <<"U+10FF", <<"U+1CBF">>>>,
     <<"U+13F8", <<"U+13F0">>>>, <<"U+13F9", <<"U+13F1">>>>, <<"U+13FA", <<"U+13F2">>>>,
     <<"U+13FB", <<"U+13F3">>>>, <<"U+13FC", <<"U+13F4">>>>, <<"U+13FD", <<"U+13F5">>>>,
     <<"U+1C80", <<"U+0412">>>>, <<"U+1C81", <<"U+0414">>>>, <<"U+1C82", <<"U+041E">>>>,
     <<"U+1C83", <<"U+0421">>>>, <<"U+1C84", <<"U+0422">>>>, <<"U+1C85", <<"U+0422">>>>,
     <<"U+1C86", <<"U+042A">>>>, <<"U+1C87", <<"U+0462">>>>, <<"U+1C88", <<"U+A64A">>>>,
     <<"U+1D79", <<"U+A77D">>>>, <<"U+1D7D", <<"U+2C63">>>>, <<"U+1D8E", <<"U+A7C6">>>>,
     <<"U+1E01", <<"U+1E00">>>>, <<"U+1E03", <<"U+1E02">>>>, <<"U+1E05", <<"U+1E04">>>>,
     <<"U+1E07", <<"U+1E06">>>>, <<"U+1E09", <<"U+1E08">>>>, <<"U+1E0B", <<"U+1E0A">>>>,
     <<"U+1E0D", <<"U+1E0C">>>>, <<"U+1E0F", <<"U+1E0E">>>>, <<"U+1E11", <<"U+1E10">>>>,
     <<"U+1E13", <<"U+1E12">>>>, <<"U+1E15", <<"U+1E14">>>>, <<"U+1E17", <<"U+1E16">>>>,
     <<"U+1E19", <<"U+1E18">>>>, <<"U+1E1B", <<"U+1E1A">>>>, <<"U+1E1D", <<"U+1E1C">>>>,
     <<"U+1E1F", <<"U+1E1E">>>>, <<"U+1E21", <<"U+1E20">>>>, <<"U+1E23", <<"U+1E22">>>>,
     <<"U+1E25", <<"U+1E24">>>>, <<"U+1E27", <<"U+1E26">>>>, <<"U+1E29", <<"U+1E28">>>>,
     <<"U+1E2B", <<"U+1E2A">>>>, <<"U+1E2D", <<"U+1E2C">>>>, <<"U+1E2F", <<"U+1E2E">>>>,
     <<"U+1E31", <<"U+1E30">>>>, <<"U+1E33", <<"U+1E32">>>>, <<"U+1E35", <<"U+1E34">>>>,
     <<"U+1E37", <<"U+1E36">>>>, <<"U+1E39", <<"U+1E38">>>>, <<"U+1E3B", <<"U+1E3A">>>>,
     <<"U+1E3D", <<"U+1E3C">>>>, <<"U+1E3F", <<"U+1E3E">>>>, <<"U+1E41", <<"U+1E40">>>>,
     <<"U+1E43", <<"U+1E42">>>>, <<"U+1E45", <<"U+1E44">>>>, <<"U+1E47", <<"U+1E46">>>>,
     <<"U+1E49", <<"U+1E48">>>>, <<"U+1E4B", <<"U+1E4A">>>>, <<"U+1E4D", <<"U+1E4C">>>>,
     <<"U+1E4F", <<"U+1E4E">>>>, <<"U+1E51", <<"U+1E50">>>>, <<"U+1E53", <<"U+1E52">>>>,
     <<"U+1E55", <<"U+1E54">>>>, <<"U+1E57", <<"U+1E56">>>>, <<"U+1E59", <<"U+1E58">>>>,
     <<"U+1E5B", <<"U+1E5A">>>>, <<"U+1E5D", <<"U+1E5C">>>>, <<"U+1E5F", <<"U+1E5E">>>>,
     <<"U+1E61", <<"U+1E60">>>>, <<"U+1E63", <<"U+1E62">>>>, <<"U+1E65", <<"U+1E64">>>>,
     <<"U+1E67", <<"U+1E66">>>>, <<"U+1E69", <<"U+1E68">>>>, <<"U+1E6B", <<"U+1E6A">>>>,
     <<"U+1E6D", <<"U+1E6C">>>>, <<"U+1E6F", <<"U+1E6E">>>>, <<"U+1E71", <<"U+1E70">>>>,
     <<"U+1E73", <<"U+1E72">>>>, <<"U+1E75", <<"U+1E74">>>>, <<"U+1E77", <<"U+1E76">>>>,
     <<"U+1E79", <<"U+1E78">>>>, <<"U+1E7B", <<"U+1E7A">>>>, <<"U+1E7D", <<"U+1E7C">>>>,
     <<"U+1E7F", <<"U+1E7E">>>>, <<"U+1E81", <<"U+1E80">>>>, <<"U+1E83", <<"U+1E82">>>>,
     <<"U+1E85", <<"U+1E84">>>>, <<"U+1E87", <<"U+1E86">>>>, <<"U+1E89", <<"U+1E88">>>>,
     <<"U+1E8B", <<"U+1E8A">>>>, <<"U+1E8D", <<"U+1E8C">>>>, <<"U+1E8F", <<"U+1E8E">>>>,
     <<"U+1E91", <<"U+1E90">>>>, <<"U+1E93", <<"U+1E92">>>>, <<"U+1E95", <<"U+1E94">>>>,
     <<"U+1E96", <<"H", "U+0331">>>>, <<"U+1E97", <<"T", "U+0308">>>>,
     <<"U+1E98", <<"W", "U+030A">>>>, <<"U+1E99", <<"Y", "U+030A">>>>,
     <<"U+1E9A", <<"A", "U+02BE">>>>, <<"U+1E9B", <<"U+1E60">>>>,
     <<"U+1EA1", <<"U+1EA0">>>>, <<"U+1EA3", <<"U+1EA2">>>>, <<"U+1EA5", <<"U+1EA4">>>>,
     <<"U+1EA7", <<"U+1EA6">>>>, <<"U+1EA9", <<"U+1EA8">>>>, <<"U+1EAB", <<"U+1EAA">>>>,
     <<"U+1EAD", <<"U+1EAC">>>>, <<"U+1EAF", <<"U+1EAE">>>>, <<"U+1EB1", <<"U+1EB0">>>>,
     <<"U+1EB3", <<"U+1EB2">>>>, <<"U+1EB5", <<"U+1EB4">>>>, <<"U+1EB7", <<"U+1EB6">>>>,
     <<"U+1EB9", <<"U+1EB8">>>>, <<"U+1EBB", <<"U+1EBA">>>>, <<"U+1EBD", <<"U+1EBC">>>>,
     <<"U+1EBF", <<"U+1EBE">>>>, <<"U+1EC1", <<"U+1EC0">>>>, <<"U+1EC3", <<"U+1EC2">>>>,
     <<"U+1EC5", <<"U+1EC4">>>>, <<"U+1EC7", <<"U+1EC6">>>>, <<"U+1EC9", <<"U+1EC8">>>>,
     <<"U+1ECB", <<"U+1ECA">>>>, <<"U+1ECD", <<"U+1ECC">>>>, <<"U+1ECF", <<"U+1ECE">>>>,
     <<"U+1ED1", <<"U+1ED0">>>>, <<"U+1ED3", <<"U+1ED2">>>>, <<"U+1ED5", <<"U+1ED4">>>>,
     <<"U+1ED7", <<"U+1ED6">>>>, <<"U+1ED9", <<"U+1ED8">>>>, <<"U+1EDB", <<"U+1EDA">>>>,
     <<"U+1EDD", <<"U+1EDC">>>>, <<"U+1EDF", <<"U+1EDE">>>>, <<"U+1EE1", <<"U+1EE0">>>>,
     <<"U+1EE3", <<"U+1EE2">>>>, <<"U+1EE5", <<"U+1EE4">>>>, <<"U+1EE7", <<"U+1EE6">>>>,
     <<"U+1EE9", <<"U+1EE8">>>>, <<"U+1EEB", <<"U+1EEA">>>>, <<"U+1EED", <<"U+1EEC">>>>,
     <<"U+1EEF", <<"U+1EEE">>>>, <<"U+1EF1", <<"U+1EF0">>>>, <<"U+1EF3", <<"U+1EF2">>>>,
     <<"U+1EF5", <<"U+1EF4">>>>, <<"U+1EF7", <<"U+1EF6">>>>, <<"U+1EF9", <<"U+1EF8">>>>,
     <<"U+1EFB", <<"U+1EFA">>>>, <<"U+1EFD", <<"U+1EFC">>>>, <<"U+1EFF", <<"U+1EFE">>>>,
     <<"U+1F00", <<"U+1F08">>>>, <<"U+1F01", <<"U+1F09">>>>, <<"U+1F02", <<"U+1F0A">>>>,
     <<"U+1F03", <<"U+1F0B">>>>, <<"U+1F04", <<"U+1F0C">>>>, <<"U+1F05", <<"U+1F0D">>>>,
     <<"U+1F06", <<"U+1F0E">>>>, <<"U+1F07", <<"U+1F0F">>>>, <<"U+1F10", <<"U+1F18">>>>,
     <<"U+1F11", <<"U+1F19">>>>, <<"U+1F12", <<"U+1F1A">>>>, <<"U+1F13", <<"U+1F1B">>>>,
     <<"U+1F14", <<"U+1F1C">>>>, <<"U+1F15", <<"U+1F1D">>>>, <<"U+1F20", <<"U+1F28">>>>,
     <<"U+1F21", <<"U+1F29">>>>, <<"U+1F22", <<"U+1F2A">>>>, <<"U+1F23", <<"U+1F2B">>>>,
     <<"U+1F24", <<"U+1F2C">>>>, <<"U+1F25", <<"U+1F2D">>>>, <<"U+1F26", <<"U+1F2E">>>>,
     <<"U+1F27", <<"U+1F2F">>>>, <<"U+1F30", <<"U+1F38">>>>, <<"U+1F31", <<"U+1F39">>>>,
     <<"U+1F32", <<"U+1F3A">>>>, <<"U+1F33", <<"U+1F3B">>>>, <<"U+1F34", <<"U+1F3C">>>>,
     <<"U+1F35", <<"U+1F3D">>>>, <<"U+1F36", <<"U+1F3E">>>>, <<"U+1F37", <<"U+1F3F">>>>,
     <<"U+1F40", <<"U+1F48">>>>, <<"U+1F41", <<"U+1F49">>>>, <<"U+1F42", <<"U+1F4A">>>>,
     <<"U+1F43", <<"U+1F4B">>>>, <<"U+1F44", <<"U+1F4C">>>>, <<"U+1F45", <<"U+1F4D">>>>,
     <<"U+1F50", <<"U+03A5", "U+0313">>>>, <<"U+1F51", <<"U+1F59">>>>,
     <<"U+1F52", <<"U+03A5", "U+0313", "U+0300">>>>, <<"U+1F53", <<"U+1F5B">>>>,
     <<"U+1F54", <<"U+03A5", "U+0313", "U+0301">>>>, <<"U+1F55", <<"U+1F5D">>>>,
     <<"U+1F56", <<"U+03A5", "U+0313", "U+0342">>>>, <<"U+1F57", <<"U+1F5F">>>>,
     <<"U+1F60", <<"U+1F68">>>>, <<"U+1F61", <<"U+1F69">>>>, <<"U+1F62", <<"U+1F6A">>>>,
     <<"U+1F63", <<"U+1F6B">>>>, <<"U+1F64", <<"U+1F6C">>>>, <<"U+1F65", <<"U+1F6D">>>>,
     <<"U+1F66", <<"U+1F6E">>>>, <<"U+1F67", <<"U+1F6F">>>>, <<"U+1F70", <<"U+1FBA">>>>,
     <<"U+1F71", <<"U+1FBB">>>>, <<"U+1F72", <<"U+1FC8">>>>, <<"U+1F73", <<"U+1FC9">>>>,
     <<"U+1F74", <<"U+1FCA">>>>, <<"U+1F75", <<"U+1FCB">>>>, <<"U+1F76", <<"U+1FDA">>>>,
     <<"U+1F77", <<"U+1FDB">>>>, <<"U+1F78", <<"U+1FF8">>>>, <<"U+1F79", <<"U+1FF9">>>>,
     <<"U+1F7A", <<"U+1FEA">>>>, <<"U+1F7B", <<"U+1FEB">>>>, <<"U+1F7C", <<"U+1FFA">>>>,
     <<"U+1F7D", <<"U+1FFB">>>>, <<"U+1F80", <<"U+1F08", "U+0399">>>>,
     <<"U+1F81", <<"U+1F09", "U+0399">>>>, <<"U+1F82", <<"U+1F0A", "U+0399">>>>,
     <<"U+1F83", <<"U+1F0B", "U+0399">>>>, <<"U+1F84", <<"U+1F0C", "U+0399">>>>,
     <<"U+1F85", <<"U+1F0D", "U+0399">>>>, <<"U+1F86", <<"U+1F0E", "U+0399">>>>,
     <<"U+1F87", <<"U+1F0F", "U+0399">>>>, <<"U+1F88", <<"U+1F08", "U+0399">>>>,
     <<"U+1F89", <<"U+1F09", "U+0399">>>>, <<"U+1F8A", <<"U+1F0A", "U+0399">>>>,
     <<"U+1F8B", <<"U+1F0B", "U+0399">>>>, <<"U+1F8C", <<"U+1F0C", "U+0399">>>>,
     <<"U+1F8D", <<"U+1F0D", "U+0399">>>>, <<"U+1F8E", <<"U+1F0E", "U+0399">>>>,
     <<"U+1F8F", <<"U+1F0F", "U+0399">>>>, <<"U+1F90", <<"U+1F28", "U+0399">>>>,
     <<"U+1F91", <<"U+1F29", "U+0399">>>>, <<"U+1F92", <<"U+1F2A", "U+0399">>>>,
     <<"U+1F93", <<"U+1F2B", "U+0399">>>>, <<"U+1F94", <<"U+1F2C", "U+0399">>>>,
     <<"U+1F95", <<"U+1F2D", "U+0399">>>>, <<"U+1F96", <<"U+1F2E", "U+0399">>>>,
     <<"U+1F97", <<"U+1F2F", "U+0399">>>>, <<"U+1F98", <<"U+1F28", "U+0399">>>>,
     <<"U+1F99", <<"U+1F29", "U+0399">>>>, <<"U+1F9A", <<"U+1F2A", "U+0399">>>>,
     <<"U+1F9B", <<"U+1F2B", "U+0399">>>>, <<"U+1F9C", <<"U+1F2C", "U+0399">>>>,
     <<"U+1F9D", <<"U+1F2D", "U+0399">>>>, <<"U+1F9E", <<"U+1F2E", "U+0399">>>>,
     <<"U+1F9F", <<"U+1F2F", "U+0399">>>>, <<"U+1FA0", <<"U+1F68", "U+0399">>>>,
     <<"U+1FA1", <<"U+1F69", "U+0399">>>>, <<"U+1FA2", <<"U+1F6A", "U+0399">>>>,
     <<"U+1FA3", <<"U+1F6B", "U+0399">>>>, <<"U+1FA4", <<"U+1F6C", "U+0399">>>>,
     <<"U+1FA5", <<"U+1F6D", "U+0399">>>>, <<"U+1FA6", <<"U+1F6E", "U+0399">>>>,
     <<"U+1FA7", <<"U+1F6F", "U+0399">>>>, <<"U+1FA8", <<"U+1F68", "U+0399">>>>,
     <<"U+1FA9", <<"U+1F69", "U+0399">>>>, <<"U+1FAA", <<"U+1F6A", "U+0399">>>>,
     <<"U+1FAB", <<"U+1F6B", "U+0399">>>>, <<"U+1FAC", <<"U+1F6C", "U+0399">>>>,
     <<"U+1FAD", <<"U+1F6D", "U+0399">>>>, <<"U+1FAE", <<"U+1F6E", "U+0399">>>>,
     <<"U+1FAF", <<"U+1F6F", "U+0399">>>>, <<"U+1FB0", <<"U+1FB8">>>>,
     <<"U+1FB1", <<"U+1FB9">>>>, <<"U+1FB2", <<"U+1FBA", "U+0399">>>>,
     <<"U+1FB3", <<"U+0391", "U+0399">>>>, <<"U+1FB4", <<"U+0386", "U+0399">>>>,
     <<"U+1FB6", <<"U+0391", "U+0342">>>>, <<"U+1FB7", <<"U+0391", "U+0342", "U+0399">>>>,
     <<"U+1FBC", <<"U+0391", "U+0399">>>>, <<"U+1FBE", <<"U+0399">>>>,
     <<"U+1FC2", <<"U+1FCA", "U+0399">>>>, <<"U+1FC3", <<"U+0397", "U+0399">>>>,
     <<"U+1FC4", <<"U+0389", "U+0399">>>>, <<"U+1FC6", <<"U+0397", "U+0342">>>>,
     <<"U+1FC7", <<"U+0397", "U+0342", "U+0399">>>>, <<"U+1FCC", <<"U+0397", "U+0399">>>>,
     <<"U+1FD0", <<"U+1FD8">>>>, <<"U+1FD1", <<"U+1FD9">>>>,
     <<"U+1FD2", <<"U+0399", "U+0308", "U+0300">>>>,
     <<"U+1FD3", <<"U+0399", "U+0308", "U+0301">>>>, <<"U+1FD6", <<"U+0399", "U+0342">>>>,
     <<"U+1FD7", <<"U+0399", "U+0308", "U+0342">>>>, <<"U+1FE0", <<"U+1FE8">>>>,
     <<"U+1FE1", <<"U+1FE9">>>>, <<"U+1FE2", <<"U+03A5", "U+0308", "U+0300">>>>,
     <<"U+1FE3", <<"U+03A5", "U+0308", "U+0301">>>>, <<"U+1FE4", <<"U+03A1", "U+0313">>>>,
     <<"U+1FE5", <<"U+1FEC">>>>, <<"U+1FE6", <<"U+03A5", "U+0342">>>>,
     <<"U+1FE7", <<"U+03A5", "U+0308", "U+0342">>>>, <<"U+1FF2", <<"U+1FFA", "U+0399">>>>,
     <<"U+1FF3", <<"U+03A9", "U+0399">>>>, <<"U+1FF4", <<"U+038F", "U+0399">>>>,
     <<"U+1FF6", <<"U+03A9", "U+0342">>>>, <<"U+1FF7", <<"U+03A9", "U+0342", "U+0399">>>>,
     <<"U+1FFC", <<"U+03A9", "U+0399">>>>, <<"U+214E", <<"U+2132">>>>,
     <<"U+2170", <<"U+2160">>>>, <<"U+2171", <<"U+2161">>>>, <<"U+2172", <<"U+2162">>>>,
     <<"U+2173", <<"U+2163">>>>, <<"U+2174", <<"U+2164">>>>, <<"U+2175", <<"U+2165">>>>,
     <<"U+2176", <<"U+2166">>>>, <<"U+2177", <<"U+2167">>>>, <<"U+2178", <<"U+2168">>>>,
     <<"U+2179", <<"U+2169">>>>, <<"U+217A", <<"U+216A">>>>, <<"U+217B", <<"U+216B">>>>,
     <<"U+217C", <<"U+216C">>>>, <<"U+217D", <<"U+216D">>>>, <<"U+217E", <<"U+216E">>>>,
     <<"U+217F", <<"U+216F">>>>, <<"U+2184", <<"U+2183">>>>, <<"U+24D0", <<"U+24B6">>>>,
     <<"U+24D1", <<"U+24B7">>>>, <<"U+24D2", <<"U+24B8">>>>, <<"U+24D3", <<"U+24B9">>>>,
     <<"U+24D4", <<"U+24BA">>>>, <<"U+24D5", <<"U+24BB">>>>, <<"U+24D6", <<"U+24BC">>>>,
     <<"U+24D7", <<"U+24BD">>>>, <<"U+24D8", <<"U+24BE">>>>, <<"U+24D9", <<"U+24BF">>>>,
     <<"U+24DA", <<"U+24C0">>>>, <<"U+24DB", <<"U+24C1">>>>, <<"U+24DC", <<"U+24C2">>>>,
     <<"U+24DD", <<"U+24C3">>>>, <<"U+24DE", <<"U+24C4">>>>, <<"U+24DF", <<"U+24C5">>>>,
     <<"U+24E0", <<"U+24C6">>>>, <<"U+24E1", <<"U+24C7">>>>, <<"U+24E2", <<"U+24C8">>>>,
     <<"U+24E3", <<"U+24C9">>>>, <<"U+24E4", <<"U+24CA">>>>, <<"U+24E5", <<"U+24CB">>>>,
     <<"U+24E6", <<"U+24CC">>>>, <<"U+24E7", <<"U+24CD">>>>, <<"U+24E8", <<"U+24CE">>>>,
     <<"U+24E9", <<"U+24CF">>>>, <<"U+2C30", <<"U+2C00">>>>, <<"U+2C31", <<"U+2C01">>>>,
     <<"U+2C32", <<"U+2C02">>>>, <<"U+2C33", <<"U+2C03">>>>, <<"U+2C34", <<"U+2C04">>>>,
     <<"U+2C35", <<"U+2C05">>>>, <<"U+2C36", <<"U+2C06">>>>, <<"U+2C37", <<"U+2C07">>>>,
     <<"U+2C38", <<"U+2C08">>>>, <<"U+2C39", <<"U+2C09">>>>, <<"U+2C3A", <<"U+2C0A">>>>,
     <<"U+2C3B", <<"U+2C0B">>>>, <<"U+2C3C", <<"U+2C0C">>>>, <<"U+2C3D", <<"U+2C0D">>>>,
     <<"U+2C3E", <<"U+2C0E">>>>, <<"U+2C3F", <<"U+2C0F">>>>, <<"U+2C40", <<"U+2C10">>>>,
     <<"U+2C41", <<"U+2C11">>>>, <<"U+2C42", <<"U+2C12">>>>, <<"U+2C43", <<"U+2C13">>>>,
     <<"U+2C44", <<"U+2C14">>>>, <<"U+2C45", <<"U+2C15">>>>, <<"U+2C46", <<"U+2C16">>>>,
     <<"U+2C47", <<"U+2C17">>>>, <<"U+2C48", <<"U+2C18">>>>, <<"U+2C49", <<"U+2C19">>>>,
     <<"U+2C4A", <<"U+2C1A">>>>, <<"U+2C4B", <<"U+2C1B">>>>, <<"U+2C4C", <<"U+2C1C">>>>,
     <<"U+2C4D", <<"U+2C1D">>>>, <<"U+2C4E", <<"U+2C1E">>>>, <<"U+2C4F", <<"U+2C1F">>>>,
     <<"U+2C50", <<"U+2C20">>>>, <<"U+2C51", <<"U+2C21">>>>, <<"U+2C52", <<"U+2C22">>>>,
     <<"U+2C53", <<"U+2C23">>>>, <<"U+2C54", <<"U+2C24">>>>, <<"U+2C55", <<"U+2C25">>>>,
     <<"U+2C56", <<"U+2C26">>>>, <<"U+2C57", <<"U+2C27">>>>, <<"U+2C58", <<"U+2C28">>>>,
     <<"U+2C59", <<"U+2C29">>>>, <<"U+2C5A", <<"U+2C2A">>>>, <<"U+2C5B", <<"U+2C2B">>>>,
     <<"U+2C5C", <<"U+2C2C">>>>, <<"U+2C5D", <<"U+2C2D">>>>, <<"U+2C5E", <<"U+2C2E">>>>,
     <<"U+2C5F", <<"U+2C2F">>>>, <<"U+2C61", <<"U+2C60">>>>, <<"U+2C65", <<"U+023A">>>>,
     <<"U+2C66", <<"U+023E">>>>, <<"U+2C68", <<"U+2C67">>>>, <<"U+2C6A", <<"U+2C69">>>>,
     <<"U+2C6C", <<"U+2C6B">>>>, <<"U+2C73", <<"U+2C72">>>>, <<"U+2C76", <<"U+2C75">>>>,
     <<"U+2C81", <<"U+2C80">>>>, <<"U+2C83", <<"U+2C82">>>>, <<"U+2C85", <<"U+2C84">>>>,
     <<"U+2C87", <<"U+2C86">>>>, <<"U+2C89", <<"U+2C88">>>>, <<"U+2C8B", <<"U+2C8A">>>>,
     <<"U+2C8D", <<"U+2C8C">>>>, <<"U+2C8F", <<"U+2C8E">>>>, <<"U+2C91", <<"U+2C90">>>>,
     <<"U+2C93", <<"U+2C92">>>>, <<"U+2C95", <<"U+2C94">>>>, <<"U+2C97", <<"U+2C96">>>>,
     <<"U+2C99", <<"U+2C98">>>>, <<"U+2C9B", <<"U+2C9A">>>>, <<"U+2C9D", <<"U+2C9C">>>>,
     <<"U+2C9F", <<"U+2C9E">>>>, <<"U+2CA1", <<"U+2CA0">>>>, <<"U+2CA3", <<"U+2CA2">>>>,
     <<"U+2CA5", <<"U+2CA4">>>>, <<"U+2CA7", <<"U+2CA6">>>>, <<"U+2CA9", <<"U+2CA8">>>>,
     <<"U+2CAB", <<"U+2CAA">>>>, <<"U+2CAD", <<"U+2CAC">>>>, <<"U+2CAF", <<"U+2CAE">>>>,
     <<"U+2CB1", <<"U+2CB0">>>>, <<"U+2CB3", <<"U+2CB2">>>>, <<"U+2CB5", <<"U+2CB4">>>>,
     <<"U+2CB7", <<"U+2CB6">>>>, <<"U+2CB9", <<"U+2CB8">>>>, <<"U+2CBB", <<"U+2CBA">>>>,
     <<"U+2CBD", <<"U+2CBC">>>>, <<"U+2CBF", <<"U+2CBE">>>>, <<"U+2CC1", <<"U+2CC0">>>>,
     <<"U+2CC3", <<"U+2CC2">>>>, <<"U+2CC5", <<"U+2CC4">>>>, <<"U+2CC7", <<"U+2CC6">>>>,
     <<"U+2CC9", <<"U+2CC8">>>>, <<"U+2CCB", <<"U+2CCA">>>>, <<"U+2CCD", <<"U+2CCC">>>>,
     <<"U+2CCF", <<"U+2CCE">>>>, <<"U+2CD1", <<"U+2CD0">>>>, <<"U+2CD3", <<"U+2CD2">>>>,
     <<"U+2CD5", <<"U+2CD4">>>>, <<"U+2CD7", <<"U+2CD6">>>>, <<"U+2CD9", <<"U+2CD8">>>>,
     <<"U+2CDB", <<"U+2CDA">>>>, <<"U+2CDD", <<"U+2CDC">>>>, <<"U+2CDF", <<"U+2CDE">>>>,
     <<"U+2CE1", <<"U+2CE0">>>>, <<"U+2CE3", <<"U+2CE2">>>>, <<"U+2CEC", <<"U+2CEB">>>>,
     <<"U+2CEE", <<"U+2CED">>>>, <<"U+2CF3", <<"U+2CF2">>>>, <<"U+2D00", <<"U+10A0">>>>,
     <<"U+2D01", <<"U+10A1">>>>, <<"U+2D02", <<"U+10A2">>>>, <<"U+2D03", <<"U+10A3">>>>,
     <<"U+2D04", <<"U+10A4">>>>, <<"U+2D05", <<"U+10A5">>>>, <<"U+2D06", <<"U+10A6">>>>,
     <<"U+2D07", <<"U+10A7">>>>, <<"U+2D08", <<"U+10A8">>>>, <<"U+2D09", <<"U+10A9">>>>,
     <<"U+2D0A", <<"U+10AA">>>>, <<"U+2D0B", <<"U+10AB">>>>, <<"U+2D0C", <<"U+10AC">>>>,
     <<"U+2D0D", <<"U+10AD">>>>, <<"U+2D0E", <<"U+10AE">>>>, <<"U+2D0F", <<"U+10AF">>>>,
     <<"U+2D10", <<"U+10B0">>>>, <<"U+2D11", <<"U+10B1">>>>, <<"U+2D12", <<"U+10B2">>>>,
     <<"U+2D13", <<"U+10B3">>>>, <<"U+2D14", <<"U+10B4">>>>, <<"U+2D15", <<"U+10B5">>>>,
     <<"U+2D16", <<"U+10B6">>>>, <<"U+2D17", <<"U+10B7">>>>, <<"U+2D18", <<"U+10B8">>>>,
     <<"U+2D19", <<"U+10B9">>>>, <<"U+2D1A", <<"U+10BA">>>>, <<"U+2D1B", <<"U+10BB">>>>,
     <<"U+2D1C", <<"U+10BC">>>>, <<"U+2D1D", <<"U+10BD">>>>, <<"U+2D1E", <<"U+10BE">>>>,
     <<"U+2D1F", <<"U+10BF">>>>, <<"U+2D20", <<"U+10C0">>>>, <<"U+2D21", <<"U+10C1">>>>,
     <<"U+2D22", <<"U+10C2">>>>, <<"U+2D23", <<"U+10C3">>>>, <<"U+2D24", <<"U+10C4">>>>,
     <<"U+2D25", <<"U+10C5">>>>, <<"U+2D27", <<"U+10C7">>>>, <<"U+2D2D", <<"U+10CD">>>>,
     <<"U+A641", <<"U+A640">>>>, <<"U+A643", <<"U+A642">>>>, <<"U+A645", <<"U+A644">>>>,
     <<"U+A647", <<"U+A646">>>>, <<"U+A649", <<"U+A648">>>>, <<"U+A64B", <<"U+A64A">>>>,
     <<"U+A64D", <<"U+A64C">>>>, <<"U+A64F", <<"U+A64E">>>>, <<"U+A651", <<"U+A650">>>>,
     <<"U+A653", <<"U+A652">>>>, <<"U+A655", <<"U+A654">>>>, <<"U+A657", <<"U+A656">>>>,
     <<"U+A659", <<"U+A658">>>>, <<"U+A65B", <<"U+A65A">>>>, <<"U+A65D", <<"U+A65C">>>>,
     <<"U+A65F", <<"U+A65E">>>>, <<"U+A661", <<"U+A660">>>>, <<"U+A663", <<"U+A662">>>>,
     <<"U+A665", <<"U+A664">>>>, <<"U+A667", <<"U+A666">>>>, <<"U+A669", <<"U+A668">>>>,
     <<"U+A66B", <<"U+A66A">>>>, <<"U+A66D", <<"U+A66C">>>>, <<"U+A681", <<"U+A680">>>>,
     <<"U+A683", <<"U+A682">>>>, <<"U+A685", <<"U+A684">>>>, <<"U+A687", <<"U+A686">>>>,
     <<"U+A689", <<"U+A688">>>>, <<"U+A68B", <<"U+A68A">>>>, <<"U+A68D", <<"U+A68C">>>>,
     <<"U+A68F", <<"U+A68E">>>>, <<"U+A691", <<"U+A690">>>>, <<"U+A693", <<"U+A692">>>>,
     <<"U+A695", <<"U+A694">>>>, <<"U+A697", <<"U+A696">>>>, <<"U+A699", <<"U+A698">>>>,
     <<"U+A69B", <<"U+A69A">>>>, <<"U+A723", <<"U+A722">>>>, <<"U+A725", <<"U+A724">>>>,
     <<"U+A727", <<"U+A726">>>>, <<"U+A729", <<"U+A728">>>>, <<"U+A72B", <<"U+A72A">>>>,
     <<"U+A72D", <<"U+A72C">>>>, <<"U+A72F", <<"U+A72E">>>>, <<"U+A733", <<"U+A732">>>>,
     <<"U+A735", <<"U+A734">>>>, <<"U+A737", <<"U+A736">>>>, <<"U+A739", <<"U+A738">>>>,
     <<"U+A73B", <<"U+A73A">>>>, <<"U+A73D", <<"U+A73C">>>>, <<"U+A73F", <<"U+A73E">>>>,
     <<"U+A741", <<"U+A740">>>>, <<"U+A743", <<"U+A742">>>>, <<"U+A745", <<"U+A744">>>>,
     <<"U+A747", <<"U+A746">>>>, <<"U+A749", <<"U+A748">>>>, <<"U+A74B", <<"U+A74A">>>>,
     <<"U+A74D", <<"U+A74C">>>>, <<"U+A74F", <<"U+A74E">>>>, <<"U+A751", <<"U+A750">>>>,
     <<"U+A753", <<"U+A752">>>>, <<"U+A755", <<"U+A754">>>>, <<"U+A757", <<"U+A756">>>>,
     <<"U+A759", <<"U+A758">>>>, <<"U+A75B", <<"U+A75A">>>>, <<"U+A75D", <<"U+A75C">>>>,
     <<"U+A75F", <<"U+A75E">>>>, <<"U+A761", <<"U+A760">>>>, <<"U+A763", <<"U+A762">>>>,
     <<"U+A765", <<"U+A764">>>>, <<"U+A767", <<"U+A766">>>>, <<"U+A769", <<"U+A768">>>>,
     <<"U+A76B", <<"U+A76A">>>>, <<"U+A76D", <<"U+A76C">>>>, <<"U+A76F", <<"U+A76E">>>>,
     <<"U+A77A", <<"U+A779">>>>, <<"U+A77C", <<"U+A77B">>>>, <<"U+A77F", <<"U+A77E">>>>,
     <<"U+A781", <<"U+A780">>>>, <<"U+A783", <<"U+A782">>>>, <<"U+A785", <<"U+A784">>>>,
     <<"U+A787", <<"U+A786">>>>, <<"U+A78C", <<"U+A78B">>>>, <<"U+A791", <<"U+A790">>>>,
     <<"U+A793", <<"U+A792">>>>, <<"U+A794", <<"U+A7C4">>>>, <<"U+A797", <<"U+A796">>>>,
     <<"U+A799", <<"U+A798">>>>, <<"U+A79B", <<"U+A79A">>>>, <<"U+A79D", <<"U+A79C">>>>,
     <<"U+A79F", <<"U+A79E">>>>, <<"U+A7A1", <<"U+A7A0">>>>, <<"U+A7A3", <<"U+A7A2">>>>,
     <<"U+A7A5", <<"U+A7A4">>>>, <<"U+A7A7", <<"U+A7A6">>>>, <<"U+A7A9", <<"U+A7A8">>>>,
     <<"U+A7B5", <<"U+A7B4">>>>, <<"U+A7B7", <<"U+A7B6">>>>, <<"U+A7B9", <<"U+A7B8">>>>,
     <<"U+A7BB", <<"U+A7BA">>>>, <<"U+A7BD", <<"U+A7BC">>>>, <<"U+A7BF", <<"U+A7BE">>>>,
     <<"U+A7C1", <<"U+A7C0">>>>, <<"U+A7C3", <<"U+A7C2">>>>, <<"U+A7C8", <<"U+A7C7">>>>,
     <<"U+A7CA", <<"U+A7C9">>>>, <<"U+A7D1", <<"U+A7D0">>>>, <<"U+A7D7", <<"U+A7D6">>>>,
     <<"U+A7D9", <<"U+A7D8">>>>, <<"U+A7F6", <<"U+A7F5">>>>, <<"U+AB53", <<"U+A7B3">>>>,
     <<"U+AB70", <<"U+13A0">>>>, <<"U+AB71", <<"U+13A1">>>>, <<"U+AB72", <<"U+13A2">>>>,
     <<"U+AB73", <<"U+13A3">>>>, <<"U+AB74", <<"U+13A4">>>>, <<"U+AB75", <<"U+13A5">>>>,
     <<"U+AB76", <<"U+13A6">>>>, <<"U+AB77", <<"U+13A7">>>>, <<"U+AB78", <<"U+13A8">>>>,
     <<"U+AB79", <<"U+13A9">>>>, <<"U+AB7A", <<"U+13AA">>>>, <<"U+AB7B", <<"U+13AB">>>>,
     <<"U+AB7C", <<"U+13AC">>>>, <<"U+AB7D", <<"U+13AD">>>>, <<"U+AB7E", <<"U+13AE">>>>,
     <<"U+AB7F", <<"U+13AF">>>>, <<"U+AB80", <<"U+13B0">>>>, <<"U+AB81", <<"U+13B1">>>>,
     <<"U+AB82", <<"U+13B2">>>>, <<"U+AB83", <<"U+13B3">>>>, <<"U+AB84", <<"U+13B4">>>>,
     <<"U+AB85", <<"U+13B5">>>>, <<"U+AB86", <<"U+13B6">>>>, <<"U+AB87", <<"U+13B7">>>>,
     <<"U+AB88", <<"U+13B8">>>>, <<"U+AB89", <<"U+13B9">>>>, <<"U+AB8A", <<"U+13BA">>>>,
     <<"U+AB8B", <<"U+13BB">>>>, <<"U+AB8C", <<"U+13BC">>>>, <<"U+AB8D", <<"U+13BD">>>>,
     <<"U+AB8E", <<"U+13BE">>>>, <<"U+AB8F", <<"U+13BF">>>>, <<"U+AB90", <<"U+13C0">>>>,
     <<"U+AB91", <<"U+13C1">>>>, <<"U+AB92", <<"U+13C2">>>>, <<"U+AB93", <<"U+13C3">>>>,
     <<"U+AB94", <<"U+13C4">>>>, <<"U+AB95", <<"U+13C5">>>>, <<"U+AB96", <<"U+13C6">>>>,
     <<"U+AB97", <<"U+13C7">>>>, <<"U+AB98", <<"U+13C8">>>>, <<"U+AB99", <<"U+13C9">>>>,
     <<"U+AB9A", <<"U+13CA">>>>, <<"U+AB9B", <<"U+13CB">>>>, <<"U+AB9C", <<"U+13CC">>>>,
     <<"U+AB9D", <<"U+13CD">>>>, <<"U+AB9E", <<"U+13CE">>>>, <<"U+AB9F", <<"U+13CF">>>>,
     <<"U+ABA0", <<"U+13D0">>>>, <<"U+ABA1", <<"U+13D1">>>>, <<"U+ABA2", <<"U+13D2">>>>,
     <<"U+ABA3", <<"U+13D3">>>>, <<"U+ABA4", <<"U+13D4">>>>, <<"U+ABA5", <<"U+13D5">>>>,
     <<"U+ABA6", <<"U+13D6">>>>, <<"U+ABA7", <<"U+13D7">>>>, <<"U+ABA8", <<"U+13D8">>>>,
     <<"U+ABA9", <<"U+13D9">>>>, <<"U+ABAA", <<"U+13DA">>>>, <<"U+ABAB", <<"U+13DB">>>>,
     <<"U+ABAC", <<"U+13DC">>>>, <<"U+ABAD", <<"U+13DD">>>>, <<"U+ABAE", <<"U+13DE">>>>,
     <<"U+ABAF", <<"U+13DF">>>>, <<"U+ABB0", <<"U+13E0">>>>, <<"U+ABB1", <<"U+13E1">>>>,
     <<"U+ABB2", <<"U+13E2">>>>, <<"U+ABB3", <<"U+13E3">>>>, <<"U+ABB4", <<"U+13E4">>>>,
     <<"U+ABB5", <<"U+13E5">>>>, <<"U+ABB6", <<"U+13E6">>>>, <<"U+ABB7", <<"U+13E7">>>>,
     <<"U+ABB8", <<"U+13E8">>>>, <<"U+ABB9", <<"U+13E9">>>>, <<"U+ABBA", <<"U+13EA">>>>,
     <<"U+ABBB", <<"U+13EB">>>>, <<"U+ABBC", <<"U+13EC">>>>, <<"U+ABBD", <<"U+13ED">>>>,
     <<"U+ABBE", <<"U+13EE">>>>, <<"U+ABBF", <<"U+13EF">>>>, <<"U+FB00", <<"F", "F">>>>,
     <<"U+FB01", <<"F", "I">>>>, <<"U+FB02", <<"F", "L">>>>,
     <<"U+FB03", <<"F", "F", "I">>>>, <<"U+FB04", <<"F", "F", "L">>>>,
     <<"U+FB05", <<"S", "T">>>>, <<"U+FB06", <<"S", "T">>>>,
     <<"U+FB13", <<"U+0544", "U+0546">>>>, <<"U+FB14", <<"U+0544", "U+0535">>>>,
     <<"U+FB15", <<"U+0544", "U+053B">>>>, <<"U+FB16", <<"U+054E", "U+0546">>>>,
     <<"U+FB17", <<"U+0544", "U+053D">>>>, <<"U+FF41", <<"U+FF21">>>>,
     <<"U+FF42", <<"U+FF22">>>>, <<"U+FF43", <<"U+FF23">>>>, <<"U+FF44", <<"U+FF24">>>>,
     <<"U+FF45", <<"U+FF25">>>>, <<"U+FF46", <<"U+FF26">>>>, <<"U+FF47", <<"U+FF27">>>>,
     <<"U+FF48", <<"U+FF28">>>>, <<"U+FF49", <<"U+FF29">>>>, <<"U+FF4A", <<"U+FF2A">>>>,
     <<"U+FF4B", <<"U+FF2B">>>>, <<"U+FF4C", <<"U+FF2C">>>>, <<"U+FF4D", <<"U+FF2D">>>>,
     <<"U+FF4E", <<"U+FF2E">>>>, <<"U+FF4F", <<"U+FF2F">>>>, <<"U+FF50", <<"U+FF30">>>>,
     <<"U+FF51", <<"U+FF31">>>>, <<"U+FF52", <<"U+FF32">>>>, <<"U+FF53", <<"U+FF33">>>>,
     <<"U+FF54", <<"U+FF34">>>>, <<"U+FF55", <<"U+FF35">>>>, <<"U+FF56", <<"U+FF36">>>>,
     <<"U+FF57", <<"U+FF37">>>>, <<"U+FF58", <<"U+FF38">>>>, <<"U+FF59", <<"U+FF39">>>>,
     <<"U+FF5A", <<"U+FF3A">>>>, <<"U+10428", <<"U+10400">>>>,
     <<"U+10429", <<"U+10401">>>>, <<"U+1042A", <<"U+10402">>>>,
     <<"U+1042B", <<"U+10403">>>>, <<"U+1042C", <<"U+10404">>>>,
     <<"U+1042D", <<"U+10405">>>>, <<"U+1042E", <<"U+10406">>>>,
     <<"U+1042F", <<"U+10407">>>>, <<"U+10430", <<"U+10408">>>>,
     <<"U+10431", <<"U+10409">>>>, <<"U+10432", <<"U+1040A">>>>,
     <<"U+10433", <<"U+1040B">>>>, <<"U+10434", <<"U+1040C">>>>,
     <<"U+10435", <<"U+1040D">>>>, <<"U+10436", <<"U+1040E">>>>,
     <<"U+10437", <<"U+1040F">>>>, <<"U+10438", <<"U+10410">>>>,
     <<"U+10439", <<"U+10411">>>>, <<"U+1043A", <<"U+10412">>>>,
     <<"U+1043B", <<"U+10413">>>>, <<"U+1043C", <<"U+10414">>>>,
     <<"U+1043D", <<"U+10415">>>>, <<"U+1043E", <<"U+10416">>>>,
     <<"U+1043F", <<"U+10417">>>>, <<"U+10440", <<"U+10418">>>>,
     <<"U+10441", <<"U+10419">>>>, <<"U+10442", <<"U+1041A">>>>,
     <<"U+10443", <<"U+1041B">>>>, <<"U+10444", <<"U+1041C">>>>,
     <<"U+10445", <<"U+1041D">>>>, <<"U+10446", <<"U+1041E">>>>,
     <<"U+10447", <<"U+1041F">>>>, <<"U+10448", <<"U+10420">>>>,
     <<"U+10449", <<"U+10421">>>>, <<"U+1044A", <<"U+10422">>>>,
     <<"U+1044B", <<"U+10423">>>>, <<"U+1044C", <<"U+10424">>>>,
     <<"U+1044D", <<"U+10425">>>>, <<"U+1044E", <<"U+10426">>>>,
     <<"U+1044F", <<"U+10427">>>>, <<"U+104D8", <<"U+104B0">>>>,
     <<"U+104D9", <<"U+104B1">>>>, <<"U+104DA", <<"U+104B2">>>>,
     <<"U+104DB", <<"U+104B3">>>>, <<"U+104DC", <<"U+104B4">>>>,
     <<"U+104DD", <<"U+104B5">>>>, <<"U+104DE", <<"U+104B6">>>>,
     <<"U+104DF", <<"U+104B7">>>>, <<"U+104E0", <<"U+104B8">>>>,
     <<"U+104E1", <<"U+104B9">>>>, <<"U+104E2", <<"U+104BA">>>>,
     <<"U+104E3", <<"U+104BB">>>>, <<"U+104E4", <<"U+104BC">>>>,
     <<"U+104E5", <<"U+104BD">>>>, <<"U+104E6", <<"U+104BE">>>>,
     <<"U+104E7", <<"U+104BF">>>>, <<"U+104E8", <<"U+104C0">>>>,
     <<"U+104E9", <<"U+104C1">>>>, <<"U+104EA", <<"U+104C2">>>>,
     <<"U+104EB", <<"U+104C3">>>>, <<"U+104EC", <<"U+104C4">>>>,
     <<"U+104ED", <<"U+104C5">>>>, <<"U+104EE", <<"U+104C6">>>>,
     <<"U+104EF", <<"U+104C7">>>>, <<"U+104F0", <<"U+104C8">>>>,
     <<"U+104F1", <<"U+104C9">>>>, <<"U+104F2", <<"U+104CA">>>>,
     <<"U+104F3", <<"U+104CB">>>>, <<"U+104F4", <<"U+104CC">>>>,
     <<"U+104F5", <<"U+104CD">>>>, <<"U+104F6", <<"U+104CE">>>>,
     <<"U+104F7", <<"U+104CF">>>>, <<"U+104F8", <<"U+104D0">>>>,
     <<"U+104F9", <<"U+104D1">>>>, <<"U+104FA", <<"U+104D2">>>>,
     <<"U+104FB", <<"U+104D3">>>>, <<"U+10597", <<"U+10570">>>>,
     <<"U+10598", <<"U+10571">>>>, <<"U+10599", <<"U+10572">>>>,
     <<"U+1059A", <<"U+10573">>>>, <<"U+1059B", <<"U+10574">>>>,
     <<"U+1059C", <<"U+10575">>>>, <<"U+1059D", <<"U+10576">>>>,
     <<"U+1059E", <<"U+10577">>>>, <<"U+1059F", <<"U+10578">>>>,
     <<"U+105A0", <<"U+10579">>>>, <<"U+105A1", <<"U+1057A">>>>,
     <<"U+105A3", <<"U+1057C">>>>, <<"U+105A4", <<"U+1057D">>>>,
     <<"U+105A5", <<"U+1057E">>>>, <<"U+105A6", <<"U+1057F">>>>,
     <<"U+105A7", <<"U+10580">>>>, <<"U+105A8", <<"U+10581">>>>,
     <<"U+105A9", <<"U+10582">>>>, <<"U+105AA", <<"U+10583">>>>,
     <<"U+105AB", <<"U+10584">>>>, <<"U+105AC", <<"U+10585">>>>,
     <<"U+105AD", <<"U+10586">>>>, <<"U+105AE", <<"U+10587">>>>,
     <<"U+105AF", <<"U+10588">>>>, <<"U+105B0", <<"U+10589">>>>,
     <<"U+105B1", <<"U+1058A">>>>, <<"U+105B3", <<"U+1058C">>>>,
     <<"U+105B4", <<"U+1058D">>>>, <<"U+105B5", <<"U+1058E">>>>,
     <<"U+105B6", <<"U+1058F">>>>, <<"U+105B7", <<"U+10590">>>>,
     <<"U+105B8", <<"U+10591">>>>, <<"U+105B9", <<"U+10592">>>>,
     <<"U+105BB", <<"U+10594">>>>, <<"U+105BC", <<"U+10595">>>>,
     <<"U+10CC0", <<"U+10C80">>>>, <<"U+10CC1", <<"U+10C81">>>>,
     <<"U+10CC2", <<"U+10C82">>>>, <<"U+10CC3", <<"U+10C83">>>>,
     <<"U+10CC4", <<"U+10C84">>>>, <<"U+10CC5", <<"U+10C85">>>>,
     <<"U+10CC6", <<"U+10C86">>>>, <<"U+10CC7", <<"U+10C87">>>>,
     <<"U+10CC8", <<"U+10C88">>>>, <<"U+10CC9", <<"U+10C89">>>>,
     <<"U+10CCA", <<"U+10C8A">>>>, <<"U+10CCB", <<"U+10C8B">>>>,
     <<"U+10CCC", <<"U+10C8C">>>>, <<"U+10CCD", <<"U+10C8D">>>>,
     <<"U+10CCE", <<"U+10C8E">>>>, <<"U+10CCF", <<"U+10C8F">>>>,
     <<"U+10CD0", <<"U+10C90">>>>, <<"U+10CD1", <<"U+10C91">>>>,
     <<"U+10CD2", <<"U+10C92">>>>, <<"U+10CD3", <<"U+10C93">>>>,
     <<"U+10CD4", <<"U+10C94">>>>, <<"U+10CD5", <<"U+10C95">>>>,
     <<"U+10CD6", <<"U+10C96">>>>, <<"U+10CD7", <<"U+10C97">>>>,
     <<"U+10CD8", <<"U+10C98">>>>, <<"U+10CD9", <<"U+10C99">>>>,
     <<"U+10CDA", <<"U+10C9A">>>>, <<"U+10CDB", <<"U+10C9B">>>>,
     <<"U+10CDC", <<"U+10C9C">>>>, <<"U+10CDD", <<"U+10C9D">>>>,
     <<"U+10CDE", <<"U+10C9E">>>>, <<"U+10CDF", <<"U+10C9F">>>>,
     <<"U+10CE0", <<"U+10CA0">>>>, <<"U+10CE1", <<"U+10CA1">>>>,
     <<"U+10CE2", <<"U+10CA2">>>>, <<"U+10CE3", <<"U+10CA3">>>>,
     <<"U+10CE4", <<"U+10CA4">>>>, <<"U+10CE5", <<"U+10CA5">>>>,
     <<"U+10CE6", <<"U+10CA6">>>>, <<"U+10CE7", <<"U+10CA7">>>>,
     <<"U+10CE8", <<"U+10CA8">>>>, <<"U+10CE9", <<"U+10CA9">>>>,
     <<"U+10CEA", <<"U+10CAA">>>>, <<"U+10CEB", <<"U+10CAB">>>>,
     <<"U+10CEC", <<"U+10CAC">>>>, <<"U+10CED", <<"U+10CAD">>>>,
     <<"U+10CEE", <<"U+10CAE">>>>, <<"U+10CEF", <<"U+10CAF">>>>,
     <<"U+10CF0", <<"U+10CB0">>>>, <<"U+10CF1", <<"U+10CB1">>>>,
     <<"U+10CF2", <<"U+10CB2">>>>, <<"U+118C0", <<"U+118A0">>>>,
     <<"U+118C1", <<"U+118A1">>>>, <<"U+118C2", <<"U+118A2">>>>,
     <<"U+118C3", <<"U+118A3">>>>, <<"U+118C4", <<"U+118A4">>>>,
     <<"U+118C5", <<"U+118A5">>>>, <<"U+118C6", <<"U+118A6">>>>,
     <<"U+118C7", <<"U+118A7">>>>, <<"U+118C8", <<"U+118A8">>>>,
     <<"U+118C9", <<"U+118A9">>>>, <<"U+118CA", <<"U+118AA">>>>,
     <<"U+118CB", <<"U+118AB">>>>, <<"U+118CC", <<"U+118AC">>>>,
     <<"U+118CD", <<"U+118AD">>>>, <<"U+118CE", <<"U+118AE">>>>,
     <<"U+118CF", <<"U+118AF">>>>, <<"U+118D0", <<"U+118B0">>>>,
     <<"U+118D1", <<"U+118B1">>>>, <<"U+118D2", <<"U+118B2">>>>,
     <<"U+118D3", <<"U+118B3">>>>, <<"U+118D4", <<"U+118B4">>>>,
     <<"U+118D5", <<"U+118B5">>>>, <<"U+118D6", <<"U+118B6">>>>,
     <<"U+118D7", <<"U+118B7">>>>, <<"U+118D8", <<"U+118B8">>>>,
     <<"U+118D9", <<"U+118B9">>>>, <<"U+118DA", <<"U+118BA">>>>,
     <<"U+118DB", <<"U+118BB">>>>, <<"U+118DC", <<"U+118BC">>>>,
     <<"U+118DD", <<"U+118BD">>>>, <<"U+118DE", <<"U+118BE">>>>,
     <<"U+118DF", <<"U+118BF">>>>, <<"U+16E60", <<"U+16E40">>>>,
     <<"U+16E61", <<"U+16E41">>>>, <<"U+16E62", <<"U+16E42">>>>,
     <<"U+16E63", <<"U+16E43">>>>, <<"U+16E64", <<"U+16E44">>>>,
     <<"U+16E65", <<"U+16E45">>>>, <<"U+16E66", <<"U+16E46">>>>,
     <<"U+16E67", <<"U+16E47">>>>, <<"U+16E68", <<"U+16E48">>>>,
     <<"U+16E69", <<"U+16E49">>>>, <<"U+16E6A", <<"U+16E4A">>>>,
     <<"U+16E6B", <<"U+16E4B">>>>, <<"U+16E6C", <<"U+16E4C">>>>,
     <<"U+16E6D", <<"U+16E4D">>>>, <<"U+16E6E", <<"U+16E4E">>>>,
     <<"U+16E6F", <<"U+16E4F">>>>, <<"U+16E70", <<"U+16E50">>>>,
     <<"U+16E71", <<"U+16E51">>>>, <<"U+16E72", <<"U+16E52">>>>,
     <<"U+16E73", <<"U+16E53">>>>, <<"U+16E74", <<"U+16E54">>>>,
     <<"U+16E75", <<"U+16E55">>>>, <<"U+16E76", <<"U+16E56">>>>,
     <<"U+16E77", <<"U+16E57">>>>, <<"U+16E78", <<"U+16E58">>>>,
     <<"U+16E79", <<"U+16E59">>>>, <<"U+16E7A", <<"U+16E5A">>>>,
     <<"U+16E7B", <<"U+16E5B">>>>, <<"U+16E7C", <<"U+16E5C">>>>,
     <<"U+16E7D", <<"U+16E5D">>>>, <<"U+16E7E", <<"U+16E5E">>>>,
     <<"U+16E7F", <<"U+16E5F">>>>, <<"U+1E922", <<"U+1E900">>>>,
     <<"U+1E923", <<"U+1E901">>>>, <<"U+1E924", <<"U+1E902">>>>,
     <<"U+1E925", <<"U+1E903">>>>, <<"U+1E926", <<"U+1E904">>>>,
     <<"U+1E927", <<"U+1E905">>>>, <<"U+1E928", <<"U+1E906">>>>,
     <<"U+1E929", <<"U+1E907">>>>, <<"U+1E92A", <<"U+1E908">>>>,
     <<"U+1E92B", <<"U+1E909">>>>, <<"U+1E92C", <<"U+1E90A">>>>,
     <<"U+1E92D", <<"U+1E90B">>>>, <<"U+1E92E", <<"U+1E90C">>>>,
     <<"U+1E92F", <<"U+1E90D">>>>, <<"U+1E930", <<"U+1E90E">>>>,
     <<"U+1E931", <<"U+1E90F">>>>, <<"U+1E932", <<"U+1E910">>>>,
     <<"U+1E933", <<"U+1E911">>>>, <<"U+1E934", <<"U+1E912">>>>,
     <<"U+1E935", <<"U+1E913">>>>, <<"U+1E936", <<"U+1E914">>>>,
     <<"U+1E937", <<"U+1E915">>>>, <<"U+1E938", <<"U+1E916">>>>,
     <<"U+1E939", <<"U+1E917">>>>, <<"U+1E93A", <<"U+1E918">>>>,
     <<"U+1E93B", <<"U+1E919">>>>, <<"U+1E93C", <<"U+1E91A">>>>,
     <<"U+1E93D", <<"U+1E91B">>>>, <<"U+1E93E", <<"U+1E91C">>>>,
     <<"U+1E93F", <<"U+1E91D">>>>, <<"U+1E940", <<"U+1E91E">>>>,
     <<"U+1E941", <<"U+1E91F">>>>, <<"U+1E942", <<"U+1E920">>>>,
     <<"U+1E943", <<"U+1E921">>>>}
UpperFn == [c \in {p[1] : p \in UpperTable} |-> (CHOOSE p \in UpperTable : p[1] = c)[2]]

\* str.upper() on one character (one to three characters), and on a str
UpperChar(c) ==
    IF c \in Range(LowerLetters)
    THEN <<UpperLetters[CHOOSE i \in DOMAIN LowerLetters : LowerLetters[i] = c]>>
    ELSE IF c \in DOMAIN UpperFn
    THEN UpperFn[c]
    ELSE <<c>>
RECURSIVE upper(_)
upper(s) == IF s = <<>> THEN <<>> ELSE UpperChar(Head(s)) \o upper(Tail(s))

\* str.isnumeric(): at least one character and every character numeric.
isnumeric(s) == s # <<>> /\ \A i \in DOMAIN s : s[i] \in NumericChars

\* str.split(sep): the parts between the separators, empty parts kept.
RECURSIVE split(_, _)
split(s, sep) ==
    IF \A i \in DOMAIN s : s[i] # sep
    THEN <<s>>
    ELSE LET k == CHOOSE i \in DOMAIN s : s[i] = sep /\ \A j \in 1..(i - 1) : s[j] # sep
         IN  <<SubSeq(s, 1, k - 1)>> \o split(SubSeq(s, k + 1, Len(s)), sep)

JT_EQUITY == <<" ", "J", "T", " ", "E", "Q", "U", "I", "T", "Y">>
EQUITY == <<" ", "E", "Q", "U", "I", "T", "Y">>
US_EQUITY == <<" ", "U", "S", " ", "E", "Q", "U", "I", "T", "Y">>

\* Variants of the ticker normalization: without the numeric rule, and with
\* the market suffix compared as typed (not upper-cased).
Normalize_NoNumericRule(ticker) ==
    IF "." \in Range(ticker)
    THEN LET parts == split(ticker, ".")
             market_suffix == IF Len(parts) > 1 THEN upper(parts[2]) ELSE <<>>
         IN  IF market_suffix = <<"T">> THEN parts[1] \o JT_EQUITY ELSE parts[1] \o EQUITY
    ELSE upper(ticker) \o US_EQUITY
Normalize_SuffixAsTyped(ticker) ==
    IF isnumeric(ticker)
    THEN ticker \o JT_EQUITY
    ELSE IF "." \in Range(ticker)
         THEN LET parts == split(ticker, ".")
                  market_suffix == IF Len(parts) > 1 THEN parts[2] ELSE <<>>
              IN  IF market_suffix = <<"T">> THEN parts[1] \o JT_EQUITY ELSE parts[1] \o EQUITY
         ELSE upper(ticker) \o US_EQUITY

\* The ticker normalization of get_bloomberg_price (lines 58-70).
Normalize(ticker) ==
    IF isnumeric(ticker)
    THEN ticker \o JT_EQUITY
    ELSE IF "." \in Range(ticker)
         THEN LET parts == split(ticker, ".")
                  code == parts[1]
                  market_suffix == IF Len(parts) > 1 THEN upper(parts[2]) ELSE <<>>
              IN  IF market_suffix = <<"T">>
                  THEN code \o JT_EQUITY
                  ELSE code \o EQUITY
         ELSE upper(ticker) \o US_EQUITY

\* ------------------------------------------------- what the provider sends
\* PX_LAST in tenths; 0 is a price too.
Prices == {0, 3125}

\* One element of a record's fieldExceptions array.
FE1 == [fieldId |-> "PX_LAST", message |-> "Field not valid"]
FE2 == [fieldId |-> "PX_LAST", message |-> "Not applicable to security"]
FieldExceptionArrays == {<<FE1>>, <<FE1, FE2>>, <<FE2, FE1>>}

\* The fieldData element of a record: whether it holds PX_LAST, whether
\* that is null, and its value.
PxAbsent == [has |-> FALSE, null |-> FALSE, value |-> 0]
PxNull == [has |-> TRUE, null |-> TRUE, value |-> 0]
PxValue(v) == [has |-> TRUE, null |-> FALSE, value |-> v]
FieldDataValues == {PxAbsent, PxNull} \cup {PxValue(v) : v \in Prices}

SecNames == {"7203 JT Equity"}

\* One element of securityData. fieldData = None: the record has no
\* fieldData element, so getElement("fieldData") raises.
Records ==
    { [security |-> n, fieldExceptions |-> fe, securityError |-> None, fieldData |-> Some(fd)] :
        n \in SecNames, fe \in FieldExceptionArrays, fd \in {PxAbsent, PxValue(3125)} }
    \cup
    { [security |-> n, fieldExceptions |-> <<>>, securityError |-> Some("Unknown/Invalid security"),
       fieldData |-> Some(PxAbsent)] : n \in SecNames }
    \cup
    { [security |-> n, fieldExceptions |-> <<>>, securityError |-> None, fieldData |-> fd] :
        n \in SecNames, fd \in {None} \cup {Some(d) : d \in FieldDataValues} }

SecurityDataArrays == UNION { [1..n -> Records] : n \in 0..MaxRecs }

\* Correlation ids: that of the one request the lookup sends on its
\* session, and that of anything else the session delivers.
RequestCid == "request"
OtherCid == "other"

\* A message: its correlation ids (none: correlationIds()[0] raises),
\* its responseError element if it has one, its securityData element if it
\* has one (none: getElement("securityData") raises). The messages with
\* another correlation id include ones that carry an error or a price.
Messages ==
    { [correlationIds |-> c, responseError |-> None, securityData |-> None] :
        c \in {<<>>, <<OtherCid>>, <<RequestCid>>} }
    \cup
    { [correlationIds |-> <<OtherCid>>, responseError |-> Some("Invalid request"),
       securityData |-> None] }
    \cup
    { [correlationIds |-> <<OtherCid>>, responseError |-> None,
       securityData |-> Some(<<[security |-> n, fieldExceptions |-> <<>>, securityError |-> None,
                                fieldData |-> Some(PxValue(3125))]>>)] : n \in SecNames }
    \cup
    { [correlationIds |-> <<RequestCid>>, responseError |-> Some("Invalid request"),
       securityData |-> None] }
    \cup
    { [correlationIds |-> <<RequestCid>>, responseError |-> None, securityData |-> Some(a)] :
        a \in SecurityDataArrays }

EventTypes == {"TIMEOUT", "RESPONSE", "PARTIAL_RESPONSE", "SESSION_STATUS"}
TerminalEventTypes == {"TIMEOUT", "RESPONSE"}

\* ----------------------------------------------------------- error texts
StartFailed == "Failed to start Bloomberg session."
OpenServiceFailed == "Failed to open //blp/refdata service."
TimedOut(bt) == "Bloomberg API request timed out for " \o Str(bt) \o "."
ResponseErrorText(bt, m) == "Response Error for " \o Str(bt) \o ": " \o m
FieldErrorText(sec_name, fe) ==
    "Field Error for " \o sec_name \o " (" \o fe.fieldId \o "): " \o fe.message
SecurityErrorText(sec_name, m) == "Security Error for " \o sec_name \o ": " \o m
PxLastNull(bt) == "PX_LAST is null for " \o Str(bt) \o "."
PxLastNotFound(bt) == "PX_LAST field not found for " \o Str(bt) \o "."
ExceptionText(ticker, e) == "Exception while getting price for " \o Str(ticker) \o ": " \o e

\* ------------------------------------------------ processing of one event
\* A variant of the loop over a record's field exceptions that stops at
\* the first exception.
FieldExceptionLoop_KeepsFirst(field_exceptions_array, k, sec_name, error_message0) ==
    IF k > Len(field_exceptions_array)
    THEN error_message0
    ELSE Some(FieldErrorText(sec_name, field_exceptions_array[k]))

\* Lines 117-121: the loop over a record's field exceptions assigns
\* error_message once per exception.
RECURSIVE FieldExceptionLoop(_, _, _, _)
FieldExceptionLoop(field_exceptions_array, k, sec_name, error_message0) ==
    IF k > Len(field_exceptions_array)
    THEN error_message0
    ELSE FieldExceptionLoop(field_exceptions_array, k + 1, sec_name,
                            Some(FieldErrorText(sec_name, field_exceptions_array[k])))

\* A variant of the loop over securityData that takes the value of PX_LAST
\* without asking whether it is null.
RECURSIVE ScanRecords_NullAsValue(_, _, _, _, _)
ScanRecords_NullAsValue(security_data_array, i, price0, error_message0, bt) ==
    IF i > Len(security_data_array)
    THEN [price |-> price0, error_message |-> error_message0, exc |-> None]
    ELSE LET security_data == security_data_array[i]
             sec_name == security_data.security
         IN  IF Len(security_data.fieldExceptions) > 0
             THEN ScanRecords_NullAsValue(security_data_array, i + 1, price0,
                              FieldExceptionLoop(security_data.fieldExceptions, 1, sec_name,
                                                 error_message0), bt)
             ELSE IF security_data.securityError # None
             THEN ScanRecords_NullAsValue(security_data_array, i + 1, price0,
                              Some(SecurityErrorText(sec_name, Val(security_data.securityError))),
                              bt)
             ELSE IF security_data.fieldData = None
             THEN [price |-> price0, error_message |-> error_message0,
                   exc |-> Some("fieldData not found")]
             ELSE LET field_data == Val(security_data.fieldData)
                  IN  IF field_data.has
                      THEN [price |-> Some(field_data.value),
                            error_message |-> error_message0, exc |-> None]
                      ELSE [price |-> price0, error_message |-> Some(PxLastNotFound(bt)),
                            exc |-> None]

\* Lines 111-141: the loop over securityData, from record i on. Gives the
\* price and error_message it leaves, and the exception it raises if any.
RECURSIVE ScanRecords(_, _, _, _, _)
ScanRecords(security_data_array, i, price0, error_message0, bt) ==
    IF i > Len(security_data_array)
    THEN [price |-> price0, error_message |-> error_message0, exc |-> None]
    ELSE LET security_data == security_data_array[i]
             sec_name == security_data.security
         IN  IF Len(security_data.fieldExceptions) > 0
             THEN ScanRecords(security_data_array, i + 1, price0,
                              FieldExceptionLoop(security_data.fieldExceptions, 1, sec_name,
                                                 error_message0), bt)
             ELSE IF security_data.securityError # None
             THEN ScanRecords(security_data_array, i + 1, price0,
                              Some(SecurityErrorText(sec_name, Val(security_data.securityError))),
                              bt)
             ELSE IF security_data.fieldData = None
             THEN [price |-> price0, error_message |-> error_message0,
                   exc |-> Some("fieldData not found")]
             ELSE LET field_data == Val(security_data.fieldData)
                  IN  IF field_data.has
                      THEN IF ~field_data.null
                           THEN [price |-> Some(field_data.value),
                                 error_message |-> error_message0, exc |-> None]
                           ELSE [price |-> price0, error_message |-> Some(PxLastNull(bt)),
                                 exc |-> None]
                      ELSE [price |-> price0, error_message |-> Some(PxLastNotFound(bt)),
                            exc |-> None]

\* A variant of the test after a message that stops for a price only.
AfterMessage_PriceOnly(price1, error_message1) ==
    LET stop == price1 # None
    IN  [price |-> price1, error_message |-> error_message1,
         request_processed |-> stop, brk |-> stop, exc |-> None]

\* Lines 143-145: after a message, stop when a price or an error is there.
AfterMessage(price1, error_message1) ==
    LET stop == price1 # None \/ TruthyStr(error_message1)
    IN  [price |-> price1, error_message |-> error_message1,
         request_processed |-> stop, brk |-> stop, exc |-> None]

\* A variant of the loop body that reads every message that has a
\* correlation id as an answer to the request.
ProcessMessage_AnyCid(message, price0, error_message0, bt) ==
    LET raised(e) == [price |-> price0, error_message |-> error_message0,
                      request_processed |-> FALSE, brk |-> TRUE, exc |-> Some(e)]
    IN  IF message.correlationIds = <<>>
        THEN raised("list index out of range")
        ELSE IF message.correlationIds[1] \in {RequestCid, OtherCid}
        THEN IF message.responseError # None
             THEN [price |-> price0,
                   error_message |-> Some(ResponseErrorText(bt, Val(message.responseError))),
                   request_processed |-> TRUE, brk |-> TRUE, exc |-> None]
             ELSE IF message.securityData = None
             THEN raised("securityData not found")
             ELSE LET r == ScanRecords(Val(message.securityData), 1, price0, error_message0, bt)
                  IN  IF r.exc # None
                      THEN raised(Val(r.exc))
                      ELSE AfterMessage(r.price, r.error_message)
        ELSE AfterMessage(price0, error_message0)

\* Lines 101-145: the body of "for msg in ev" for one message. brk: the
\* loop over the messages is left; exc: the exception raised, if any.
ProcessMessage(message, price0, error_message0, bt) ==
    LET raised(e) == [price |-> price0, error_message |-> error_message0,
                      request_processed |-> FALSE, brk |-> TRUE, exc |-> Some(e)]
    IN  IF message.correlationIds = <<>>
        THEN raised("list index out of range")
        ELSE IF message.correlationIds[1] = RequestCid
        THEN IF message.responseError # None
             THEN [price |-> price0,
                   error_message |-> Some(ResponseErrorText(bt, Val(message.responseError))),
                   request_processed |-> TRUE, brk |-> TRUE, exc |-> None]
             ELSE IF message.securityData = None
             THEN raised("securityData not found")
             ELSE LET r == ScanRecords(Val(message.securityData), 1, price0, error_message0, bt)
                  IN  IF r.exc # None
                      THEN raised(Val(r.exc))
                      ELSE AfterMessage(r.price, r.error_message)
        ELSE AfterMessage(price0, error_message0)

\* ------------------------------------------------------- the HTTP handler
NoResponse == [status |-> 0, ticker |-> None, price |-> None, error |-> None]
ErrorResponse(code, m) == [status |-> code, ticker |-> None, price |-> None, error |-> Some(m)]

\* Flask's answer when the view function raises (debug is off).
InternalServerError == ErrorResponse(500, "Internal Server Error")

\* A variant of the answer to a request without a ticker: not found.
TickerRequired_NotFound == ErrorResponse(404, "Ticker parameter is required")

\* Lines 164-165.
TickerRequired == ErrorResponse(400, "Ticker parameter is required")

\* Variants of the handler's answer: the error message without the
\* normalized ticker appended, and a price tested for truth, not for None.
current_price_response_NoTickerSuffix(ticker_input, price, bloomberg_ticker, error) ==
    IF price # None
    THEN [status |-> 200,
          ticker |-> Some(IF TruthyChars(bloomberg_ticker) THEN Val(bloomberg_ticker)
                          ELSE ticker_input),
          price |-> price, error |-> None]
    ELSE ErrorResponse(404, IF TruthyStr(error) THEN Val(error)
                            ELSE "Could not retrieve price for ticker " \o Str(ticker_input))

\* Lines 169-176: the answer to a lookup that returned
\* (price, bloomberg_ticker, error).
current_price_response(ticker_input, price, bloomberg_ticker, error) ==
    IF price # None
    THEN [status |-> 200,
          ticker |-> Some(IF TruthyChars(bloomberg_ticker) THEN Val(bloomberg_ticker)
                          ELSE ticker_input),
          price |-> price, error |-> None]
    ELSE LET error_msg_to_return ==
                 IF TruthyStr(error) THEN Val(error)
                 ELSE "Could not retrieve price for ticker " \o Str(ticker_input)
         IN  IF TruthyChars(bloomberg_ticker) /\ Val(bloomberg_ticker) # ticker_input
             THEN ErrorResponse(404, error_msg_to_return \o " (used Bloomberg ticker: "
                                         \o Str(Val(bloomberg_ticker)) \o ")")
             ELSE ErrorResponse(404, error_msg_to_return)

\* ------------------------------------------------------------------ state
\* The threads of the HTTP server, each serving one request.
Threads == {"t1", "t2"}
SessionIds == 1..Cardinality(Threads)

\* The ticker query parameter of the requests: missing, empty, or a ticker.
TickerParams ==
    { None, Some(<<>>), Some(<<"M", "S", "F", "T">>), Some(<<"7", "2", "0", "3">>),
      Some(<<"7", "2", "0", "3", ".", "T">>) }

VARIABLES
    pc,                     \* where each thread is in the handler and the lookup
    ticker_input,           \* request.args.get('ticker')
    session,                \* the lookup's session: None before line 28
    price,                  \* the lookup's locals (lines 29-31, 92)
    bloomberg_ticker_used,
    error_message,
    request_processed,
    ev,                     \* the type of the event nextEvent returned last
    msg,                    \* the message the loop over the event is at
    nmsgs,                  \* messages of that event iterated so far
    polls,                  \* nextEvent calls that returned an event
    retval,                 \* the value of a return statement waiting for finally
    result,                 \* what get_bloomberg_price returned
    escaped,                \* the exception that left get_bloomberg_price
    raised,                 \* the exceptions raised after the session was created
    http,                   \* the HTTP response
    calls,                  \* per session: the calls made on it, by whom, and how they ended
    nsessions               \* sessions constructed so far

vars == <<pc, ticker_input, session, price, bloomberg_ticker_used, error_message,
          request_processed, ev, msg, nmsgs, polls, retval, result, escaped, raised,
          http, calls, nsessions>>

locals == <<price, bloomberg_ticker_used, error_message, request_processed>>
loop == <<ev, msg, nmsgs, polls>>
outcome == <<retval, result, escaped, http>>

Init ==
    /\ pc = [t \in Threads |-> IF t = "t1" THEN "idle" ELSE "off"]
    /\ ticker_input = [t \in Threads |-> None]
    /\ session = [t \in Threads |-> None]
    /\ price = [t \in Threads |-> None]
    /\ bloomberg_ticker_used = [t \in Threads |-> None]
    /\ error_message = [t \in Threads |-> None]
    /\ request_processed = [t \in Threads |-> FALSE]
    /\ ev = [t \in Threads |-> "none"]
    /\ msg = [t \in Threads |-> None]
    /\ nmsgs = [t \in Threads |-> 0]
    /\ polls = [t \in Threads |-> 0]
    /\ retval = [t \in Threads |-> None]
    /\ result = [t \in Threads |-> None]
    /\ escaped = [t \in Threads |-> None]
    /\ raised = [t \in Threads |-> <<>>]
    /\ http = [t \in Threads |-> NoResponse]
    /\ calls = [s \in SessionIds |-> <<>>]
    /\ nsessions = 0

\* The session's record of one call made on it.
Call(sid, op, self, out) ==
    [calls EXCEPT ![sid] = Append(@, [op |-> op, by |-> self, out |-> out])]

\* Lines 151-154: the except clause, then on to finally.
ExceptBlock(self, e) ==
    /\ error_message' = [error_message EXCEPT
                           ![self] = Some(ExceptionText(Val(ticker_input[self]), e))]
    /\ price' = [price EXCEPT ![self] = None]
    /\ raised' = [raised EXCEPT ![self] = Append(@, e)]
    /\ pc' = [pc EXCEPT ![self] = "finally"]

\* Lines 163-165: the request arrives; without a ticker it is answered 400.
Receive(self) ==
    /\ pc[self] = "idle"
    /\ \E t \in TickerParams :
          /\ ticker_input' = [ticker_input EXCEPT ![self] = t]
          /\ IF ~TruthyChars(t)
             THEN /\ http' = [http EXCEPT ![self] = TickerRequired]
                  /\ pc' = [pc EXCEPT ![self] = "done"]
             ELSE /\ http' = http
                  /\ pc' = [pc EXCEPT ![self] = "construct"]
    /\ UNCHANGED <<session, locals, loop, retval, result, escaped, raised, calls, nsessions>>

\* A variant of the construction that hands out one pooled session: the
\* first request constructs it, later ones reuse it.
CreateSession_Pooled(self) ==
    /\ pc[self] = "construct"
    /\ nsessions' = (IF nsessions = 0 THEN 1 ELSE nsessions)
    /\ session' = [session EXCEPT ![self] = Some(1)]
    /\ calls' = (IF nsessions = 0 THEN Call(1, "Session", self, "ok") ELSE calls)
    /\ price' = [price EXCEPT ![self] = None]
    /\ bloomberg_ticker_used' = [bloomberg_ticker_used EXCEPT ![self] = None]
    /\ error_message' = [error_message EXCEPT ![self] = None]
    /\ pc' = [pc EXCEPT ![self] = "start"]
    /\ UNCHANGED <<escaped, http, ticker_input, request_processed, loop, retval, result,
                   raised>>

\* Lines 28-31: blpapi.Session(SESSION_OPTIONS), outside the try.
CreateSession(self) ==
    /\ pc[self] = "construct"
    /\ \/ /\ nsessions' = nsessions + 1
          /\ session' = [session EXCEPT ![self] = Some(nsessions + 1)]
          /\ calls' = Call(nsessions + 1, "Session", self, "ok")
          /\ price' = [price EXCEPT ![self] = None]
          /\ bloomberg_ticker_used' = [bloomberg_ticker_used EXCEPT ![self] = None]
          /\ error_message' = [error_message EXCEPT ![self] = None]
          /\ pc' = [pc EXCEPT ![self] = "start"]
          /\ UNCHANGED <<escaped, http>>
       \/ /\ escaped' = [escaped EXCEPT ![self] = Some("Session raised")]
          /\ http' = [http EXCEPT ![self] = InternalServerError]
          /\ pc' = [pc EXCEPT ![self] = "done"]
          /\ UNCHANGED <<nsessions, session, calls, price, bloomberg_ticker_used,
                         error_message>>
    /\ UNCHANGED <<ticker_input, request_processed, loop, retval, result, raised>>

\* Lines 34-37: session.start().
Start(self) ==
    /\ pc[self] = "start"
    /\ \/ /\ calls' = Call(Val(session[self]), "start", self, "true")
          /\ pc' = [pc EXCEPT ![self] = "openService"]
          /\ UNCHANGED <<price, error_message, retval, raised>>
       \/ /\ calls' = Call(Val(session[self]), "start", self, "false")
          /\ error_message' = [error_message EXCEPT ![self] = Some(StartFailed)]
          /\ retval' = [retval EXCEPT ![self] = Some(<<None, None, Some(StartFailed)>>)]
          /\ pc' = [pc EXCEPT ![self] = "finally"]
          /\ UNCHANGED <<price, raised>>
       \/ /\ calls' = Call(Val(session[self]), "start", self, "raise")
          /\ ExceptBlock(self, "start raised")
          /\ UNCHANGED retval
    /\ UNCHANGED <<ticker_input, session, bloomberg_ticker_used, request_processed, loop,
                   result, escaped, http, nsessions>>

\* Lines 39-41: session.openService("//blp/refdata").
OpenService(self) ==
    /\ pc[self] = "openService"
    /\ \/ /\ calls' = Call(Val(session[self]), "openService", self, "true")
          /\ pc' = [pc EXCEPT ![self] = "getService"]
          /\ UNCHANGED <<price, error_message, raised>>
       \/ /\ calls' = Call(Val(session[self]), "openService", self, "false")
          /\ error_message' = [error_message EXCEPT ![self] = Some(OpenServiceFailed)]
          /\ pc' = [pc EXCEPT ![self] = "stopEarly"]
          /\ UNCHANGED <<price, raised>>
       \/ /\ calls' = Call(Val(session[self]), "openService", self, "raise")
          /\ ExceptBlock(self, "openService raised")
    /\ UNCHANGED <<ticker_input, session, bloomberg_ticker_used, request_processed, loop,
                   outcome, nsessions>>

\* Lines 42-43: session.stop() and return, after openService failed.
StopEarly(self) ==
    /\ pc[self] = "stopEarly"
    /\ \/ /\ calls' = Call(Val(session[self]), "stop", self, "ok")
          /\ retval' = [retval EXCEPT ![self] = Some(<<None, None, error_message[self]>>)]
          /\ pc' = [pc EXCEPT ![self] = "finally"]
          /\ UNCHANGED <<price, error_message, raised>>
       \/ /\ calls' = Call(Val(session[self]), "stop", self, "raise")
          /\ ExceptBlock(self, "stop raised")
          /\ UNCHANGED retval
    /\ UNCHANGED <<ticker_input, session, bloomberg_ticker_used, request_processed, loop,
                   result, escaped, http, nsessions>>

\* Lines 45-46: session.getService and service.createRequest.
GetService(self) ==
    /\ pc[self] = "getService"
    /\ \/ /\ calls' = Call(Val(session[self]), "getService", self, "ok")
          /\ pc' = [pc EXCEPT ![self] = "build"]
          /\ UNCHANGED <<price, error_message, raised>>
       \/ /\ calls' = Call(Val(session[self]), "getService", self, "raise")
          /\ ExceptBlock(self, "getService raised")
    /\ UNCHANGED <<ticker_input, session, bloomberg_ticker_used, request_processed, loop,
                   outcome, nsessions>>

\* Lines 58-85: the ticker is normalized and the request is filled in.
BuildRequest(self) ==
    /\ pc[self] = "build"
    /\ bloomberg_ticker_used' =
           [bloomberg_ticker_used EXCEPT ![self] = Some(Normalize(Val(ticker_input[self])))]
    /\ \/ /\ pc' = [pc EXCEPT ![self] = "sendRequest"]
          /\ UNCHANGED <<price, error_message, raised>>
       \/ ExceptBlock(self, "request.append raised")
    /\ UNCHANGED <<ticker_input, session, request_processed, loop, outcome, calls, nsessions>>

\* Lines 90-92: session.sendRequest(request).
SendRequest(self) ==
    /\ pc[self] = "sendRequest"
    /\ \/ /\ calls' = Call(Val(session[self]), "sendRequest", self, "ok")
          /\ request_processed' = [request_processed EXCEPT ![self] = FALSE]
          /\ pc' = [pc EXCEPT ![self] = "poll"]
          /\ UNCHANGED <<price, error_message, raised>>
       \/ /\ calls' = Call(Val(session[self]), "sendRequest", self, "raise")
          /\ ExceptBlock(self, "sendRequest raised")
          /\ UNCHANGED request_processed
    /\ UNCHANGED <<ticker_input, session, bloomberg_ticker_used, loop, outcome, nsessions>>

\* Line 93: the test of "while not request_processed".
WhileTest(processed) == IF processed THEN "finally" ELSE "poll"

\* Lines 93-98: session.nextEvent(5000), the provider delivering an event
\* of one of the given types; a TIMEOUT event ends the polling. After
\* MaxPolls events the provider's next event is a terminal one.
Poll(self, types) ==
    /\ pc[self] = "poll"
    /\ \/ \E type \in (IF polls[self] < MaxPolls THEN types
                        ELSE types \cap TerminalEventTypes) :
             /\ calls' = Call(Val(session[self]), "nextEvent", self, type)
             /\ ev' = [ev EXCEPT ![self] = type]
             /\ nmsgs' = [nmsgs EXCEPT ![self] = 0]
             /\ msg' = msg
             /\ polls' = [polls EXCEPT ![self] = @ + 1]
             /\ IF type = "TIMEOUT"
                THEN /\ error_message' =
                            [error_message EXCEPT
                               ![self] = Some(TimedOut(Val(bloomberg_ticker_used[self])))]
                     /\ pc' = [pc EXCEPT ![self] = "finally"]
                ELSE /\ error_message' = error_message
                     /\ pc' = [pc EXCEPT ![self] = "msg"]
             /\ UNCHANGED <<price, raised>>
       \/ /\ calls' = Call(Val(session[self]), "nextEvent", self, "raise")
          /\ ExceptBlock(self, "nextEvent raised")
          /\ UNCHANGED loop
    /\ UNCHANGED <<ticker_input, session, bloomberg_ticker_used, request_processed, outcome,
                   nsessions>>

\* Lines 93-98 with any event the provider can deliver.
NextEvent(self) == Poll(self, EventTypes)

\* Lines 100-145: the next message of the event, one of the given ones, is
\* processed.
Deliver(self, messages) ==
    /\ pc[self] = "msg"
    /\ nmsgs[self] < MaxMsgs
    /\ \E m \in messages :
          LET r == ProcessMessage(m, price[self], error_message[self],
                                  Val(bloomberg_ticker_used[self]))
          IN  /\ msg' = [msg EXCEPT ![self] = Some(m)]
              /\ IF r.exc # None
                 THEN /\ ExceptBlock(self, Val(r.exc))
                      /\ UNCHANGED request_processed
                 ELSE /\ price' = [price EXCEPT ![self] = r.price]
                      /\ error_message' = [error_message EXCEPT ![self] = r.error_message]
                      /\ request_processed' =
                             [request_processed EXCEPT ![self] = r.request_processed]
                      /\ pc' = [pc EXCEPT ![self] = IF r.brk THEN "eventEnd" ELSE "msg"]
                      /\ UNCHANGED raised
    /\ nmsgs' = [nmsgs EXCEPT ![self] = @ + 1]
    /\ UNCHANGED <<ticker_input, session, bloomberg_ticker_used, ev, polls, outcome, calls,
                   nsessions>>

\* Lines 100-145 with any message the provider can deliver.
NextMessage(self) == Deliver(self, Messages)

\* Line 100: the event has no further message.
EndOfMessages(self) ==
    /\ pc[self] = "msg"
    /\ pc' = [pc EXCEPT ![self] = "eventEnd"]
    /\ UNCHANGED <<ticker_input, session, locals, loop, outcome, raised, calls, nsessions>>

\* Lines 148-149, then the loop test of line 93.
EndOfEvent(self) ==
    /\ pc[self] = "eventEnd"
    /\ \/ LET processed == request_processed[self] \/ ev[self] = "RESPONSE"
          IN  /\ request_processed' = [request_processed EXCEPT ![self] = processed]
              /\ pc' = [pc EXCEPT ![self] = WhileTest(processed)]
              /\ UNCHANGED <<price, error_message, raised>>
       \/ /\ ExceptBlock(self, "eventType raised")
          /\ UNCHANGED request_processed
    /\ UNCHANGED <<ticker_input, session, bloomberg_ticker_used, loop, outcome, calls,
                   nsessions>>

\* Lines 155-159: finally stops the session; then the pending return value,
\* or that of line 159, is returned. If stop raises, the exception leaves
\* the lookup and the handler.
Finally(self) ==
    /\ pc[self] = "finally"
    /\ \/ /\ calls' = Call(Val(session[self]), "stop", self, "ok")
          /\ result' = [result EXCEPT
                          ![self] = IF retval[self] # None
                                    THEN retval[self]
                                    ELSE Some(<<price[self], bloomberg_ticker_used[self],
                                                error_message[self]>>)]
          /\ pc' = [pc EXCEPT ![self] = "respond"]
          /\ UNCHANGED <<escaped, raised, http>>
       \/ /\ calls' = Call(Val(session[self]), "stop", self, "raise")
          /\ escaped' = [escaped EXCEPT ![self] = Some("stop raised")]
          /\ raised' = [raised EXCEPT ![self] = Append(@, "stop raised")]
          /\ http' = [http EXCEPT ![self] = InternalServerError]
          /\ pc' = [pc EXCEPT ![self] = "done"]
          /\ UNCHANGED result
    /\ UNCHANGED <<ticker_input, session, locals, loop, retval, nsessions>>

\* Lines 167-176: the handler answers from what the lookup returned.
Respond(self) ==
    /\ pc[self] = "respond"
    /\ LET r == Val(result[self])
       IN  http' = [http EXCEPT
                      ![self] = current_price_response(Val(ticker_input[self]),
                                                       r[1], r[2], r[3])]
    /\ pc' = [pc EXCEPT ![self] = "done"]
    /\ UNCHANGED <<ticker_input, session, locals, loop, retval, result, escaped, raised,
                   calls, nsessions>>

Next ==
    \E self \in Threads :
        \/ Receive(self)
        \/ CreateSession(self)
        \/ Start(self)
        \/ OpenService(self)
        \/ StopEarly(self)
        \/ GetService(self)
        \/ BuildRequest(self)
        \/ SendRequest(self)
        \/ NextEvent(self)
        \/ NextMessage(self)
        \/ EndOfMessages(self)
        \/ EndOfEvent(self)
        \/ Finally(self)
        \/ Respond(self)

Spec == Init /\ [][Next]_vars

\* The thread that serves a request runs on: it is not cancelled and takes
\* its next step whenever it has one. The provider answers every call, and
\* after MaxPolls events it delivers a TIMEOUT or a RESPONSE event.
SpecLive == Spec /\ WF_vars(Next)

\* ------------------------------------------------ two requests at a time
\* Two threads serve one request each. Each session delivers answers with
\* its own price, answers to other requests, timeouts and partial
\* responses.
SessionPrice(sid) == IF sid = 1 THEN 0 ELSE 3125
SessionEventTypes == {"TIMEOUT", "RESPONSE", "PARTIAL_RESPONSE"}
SessionMessages(sid) ==
    { m \in Messages :
        /\ m.securityData # None
        /\ Len(Val(m.securityData)) = 1
        /\ LET r == Val(m.securityData)[1]
           IN  /\ r.fieldExceptions = <<>> /\ r.securityError = None
               /\ r.fieldData = Some(PxValue(IF m.correlationIds = <<RequestCid>>
                                              THEN SessionPrice(sid) ELSE 3125)) }

InitConc ==
    /\ pc = [t \in Threads |-> "construct"]
    /\ ticker_input = [t \in Threads |-> IF t = "t1" THEN Some(<<"M", "S", "F", "T">>)
                                         ELSE Some(<<"7", "2", "0", "3">>)]
    /\ session = [t \in Threads |-> None]
    /\ price = [t \in Threads |-> None]
    /\ bloomberg_ticker_used = [t \in Threads |-> None]
    /\ error_message = [t \in Threads |-> None]
    /\ request_processed = [t \in Threads |-> FALSE]
    /\ ev = [t \in Threads |-> "none"]
    /\ msg = [t \in Threads |-> None]
    /\ nmsgs = [t \in Threads |-> 0]
    /\ polls = [t \in Threads |-> 0]
    /\ retval = [t \in Threads |-> None]
    /\ result = [t \in Threads |-> None]
    /\ escaped = [t \in Threads |-> None]
    /\ raised = [t \in Threads |-> <<>>]
    /\ http = [t \in Threads |-> NoResponse]
    /\ calls = [s \in SessionIds |-> <<>>]
    /\ nsessions = 0

NextConc ==
    \E self \in Threads :
        \/ CreateSession(self)
        \/ Start(self)
        \/ OpenService(self)
        \/ StopEarly(self)
        \/ GetService(self)
        \/ BuildRequest(self)
        \/ SendRequest(self)
        \/ Poll(self, SessionEventTypes)
        \/ Deliver(self, SessionMessages(Val(session[self])))
        \/ EndOfMessages(self)
        \/ EndOfEvent(self)
        \/ Finally(self)
        \/ Respond(self)

SpecConc == InitConc /\ [][NextConc]_vars

\* ------------------------------------------- the normalizer on all inputs
\* The characters the inputs are made of: a digit, letters of both cases
\* (t, T: the Tokyo suffix), the dot, and outside ASCII the full-width
\* digit seven, the fraction one half (numeric, neither digit nor letter),
\* the CJK numeral thousand (numeric and a letter), the sharp s (upper-cased
\* to two characters) and e with acute.
NormChars == {"7", "a", "t", "T", ".", "U+FF17", "U+00BD", "U+5343", "U+00DF", "U+00E9"}
NormInputs == UNION { [1..n -> NormChars] : n \in 1..MaxLen }

\* A lookup that has started its session and opened the service, about to
\* normalize its ticker: any non-empty ticker up to MaxLen characters.
InitNorm ==
    /\ pc = [t \in Threads |-> IF t = "t1" THEN "build" ELSE "off"]
    /\ \E t \in NormInputs : ticker_input = [u \in Threads |-> IF u = "t1" THEN Some(t) ELSE None]
    /\ session = [t \in Threads |-> IF t = "t1" THEN Some(1) ELSE None]
    /\ price = [t \in Threads |-> None]
    /\ bloomberg_ticker_used = [t \in Threads |-> None]
    /\ error_message = [t \in Threads |-> None]
    /\ request_processed = [t \in Threads |-> FALSE]
    /\ ev = [t \in Threads |-> "none"]
    /\ msg = [t \in Threads |-> None]
    /\ nmsgs = [t \in Threads |-> 0]
    /\ polls = [t \in Threads |-> 0]
    /\ retval = [t \in Threads |-> None]
    /\ result = [t \in Threads |-> None]
    /\ escaped = [t \in Threads |-> None]
    /\ raised = [t \in Threads |-> <<>>]
    /\ http = [t \in Threads |-> NoResponse]
    /\ calls = [s \in SessionIds |->
                  IF s = 1
                  THEN << [op |-> "Session", by |-> "t1", out |-> "ok"],
                          [op |-> "start", by |-> "t1", out |-> "true"],
                          [op |-> "openService", by |-> "t1", out |-> "true"],
                          [op |-> "getService", by |-> "t1", out |-> "ok"] >>
                  ELSE <<>>]
    /\ nsessions = 1

NextNorm == \E self \in Threads : BuildRequest(self)

SpecNorm == InitNorm /\ [][NextNorm]_vars

\* ----------------------------------------------------------------- claims
Served == {t \in Threads : pc[t] = "done"}
Looked == {t \in Served : TruthyChars(ticker_input[t])}
Count(sid, op) == Cardinality({i \in DOMAIN calls[sid] : calls[sid][i].op = op})
Ended(sid, op, out) ==
    \E i \in DOMAIN calls[sid] : calls[sid][i].op = op /\ calls[sid][i].out = out
UsedTicker(bt) == " (used Bloomberg ticker: " \o Str(bt) \o ")"

\* C1: whichever way a call of get_bloomberg_price returns (start or
\* openService failed, price found, provider error, timeout, exception in
\* the try block), stop() has been invoked exactly once on its session.
C1_StopExactlyOnce ==
    \A t \in Served : result[t] # None => Count(Val(session[t]), "stop") = 1

\* C2: a request with a ticker is answered 200 exactly when the lookup
\* returned a price, then with the normalized ticker and that price, and
\* is answered 404 in every other case.
C2_TwoOutcomes ==
    \A t \in Looked :
        /\ http[t].status = 200 <=> (result[t] # None /\ Val(result[t])[1] # None)
        /\ http[t].status = 200 =>
              /\ http[t].ticker = bloomberg_ticker_used[t]
              /\ http[t].price = Val(result[t])[1]
              /\ Val(http[t].price) \in Prices
        /\ http[t].status # 200 => http[t].status = 404

\* C3: a TIMEOUT event ends the polling; the lookup returns no price and
\* the "timed out" error, answered with 404 and that message; and the
\* event never finds a price or an error already recorded.
C3_TimeoutAnswered ==
    \A t \in Threads :
        /\ pc[t] = "poll" => price[t] = None /\ error_message[t] = None
        /\ (t \in Served /\ ev[t] = "TIMEOUT") =>
              LET bt == Val(bloomberg_ticker_used[t])
              IN  /\ result[t] = Some(<<None, Some(bt), Some(TimedOut(bt))>>)
                  /\ http[t] = ErrorResponse(404, TimedOut(bt) \o UsedTicker(bt))

\* C4: no exception leaves get_bloomberg_price: every call returns a
\* (price, ticker, error) triple, whichever provider operation raised.
C4_NothingEscapes ==
    \A t \in Looked : escaped[t] = None /\ result[t] # None

\* C5: an exception raised after the session was created makes the lookup
\* return no price and an error derived from the exception, answered 404.
C5_ExceptionBecomesError ==
    \A t \in Served :
        raised[t] # <<>> =>
            /\ result[t] # None
            /\ Val(result[t])[1] = None
            /\ \E i \in DOMAIN raised[t] :
                  Val(result[t])[3] = Some(ExceptionText(Val(ticker_input[t]), raised[t][i]))
            /\ http[t].status = 404

\* C6: when start() or openService() returns false the lookup returns
\* (None, None, the startup failure), has sent no request and polled no
\* event, and has stopped the session.
C6_StartupFailure ==
    \A t \in Served :
        session[t] # None =>
            LET sid == Val(session[t])
                failed == Ended(sid, "start", "false") \/ Ended(sid, "openService", "false")
                text == IF Ended(sid, "start", "false") THEN StartFailed ELSE OpenServiceFailed
            IN  failed =>
                    /\ result[t] = Some(<<None, None, Some(text)>>)
                    /\ Count(sid, "sendRequest") = 0
                    /\ Count(sid, "nextEvent") = 0
                    /\ Count(sid, "stop") >= 1

\* C7: a lookup that returns no price is answered 404 with the recorded
\* error, or with the "Could not retrieve price" text when none is recorded
\* (which happens only when a RESPONSE event ended the polling), followed by
\* the normalized ticker in parentheses exactly when there is one and it
\* differs from the input.
C7_NoPriceAnswer ==
    \A t \in Served :
        (result[t] # None /\ Val(result[t])[1] = None) =>
            LET bt == Val(result[t])[2]
                err == Val(result[t])[3]
                m == IF err # None THEN Val(err)
                     ELSE "Could not retrieve price for ticker " \o Str(Val(ticker_input[t]))
                appended == bt # None /\ Val(bt) # Val(ticker_input[t])
            IN  /\ http[t].status = 404
                /\ http[t].price = None /\ http[t].ticker = None
                /\ http[t].error = Some(IF appended THEN m \o UsedTicker(Val(bt)) ELSE m)
                /\ err = None => (ev[t] = "RESPONSE" /\ request_processed[t])

\* C7 witness: a RESPONSE event ended the polling with neither price nor
\* error, and the answer is the fallback text with the ticker appended.
C7_Witness ==
    \E t \in Served :
        /\ ticker_input[t] = Some(<<"M", "S", "F", "T">>)
        /\ ev[t] = "RESPONSE"
        /\ result[t] = Some(<<None, Some(<<"M", "S", "F", "T">> \o US_EQUITY), None>>)
        /\ http[t].status = 404
        /\ http[t].error =
              Some("Could not retrieve price for ticker MSFT (used Bloomberg ticker: MSFT US EQUITY)")

\* The text before the first dot of a dotted input, and the text after it.
FirstDot(t) == CHOOSE k \in DOMAIN t : t[k] = "." /\ \A j \in 1..(k - 1) : t[j] # "."
BeforeFirstDot(t) == SubSeq(t, 1, FirstDot(t) - 1)
AfterFirstDot(t) == SubSeq(t, FirstDot(t) + 1, Len(t))
Dotted(t) == "." \in Range(t)
Normalized == {t \in Threads : bloomberg_ticker_used[t] # None}

\* C8 as stated: for an input with a dot, code is the text before the
\* first dot and suffix all the text after it, upper-cased; the result is
\* code + " JT EQUITY" when suffix is "T" and code + " EQUITY" otherwise.
C8_SuffixIsAllAfterFirstDot ==
    \A t \in Normalized :
        LET in == Val(ticker_input[t])
        IN  Dotted(in) =>
                Val(bloomberg_ticker_used[t]) =
                    BeforeFirstDot(in) \o
                        (IF upper(AfterFirstDot(in)) = <<"T">> THEN JT_EQUITY ELSE EQUITY)

\* C8 amended: for an input with a dot, code is the text before the first
\* dot and suffix the text between the first dot and the next one (all the
\* text after the first dot when there is no other), upper-cased; the
\* result is code + " JT EQUITY" when suffix is "T", else code + " EQUITY".
C8_SuffixIsUpToNextDot ==
    \A t \in Normalized :
        LET in == Val(ticker_input[t])
        IN  Dotted(in) =>
                LET rest == AfterFirstDot(in)
                    suffix == IF Dotted(rest) THEN BeforeFirstDot(rest) ELSE rest
                    isT == Len(suffix) = 1 /\ suffix[1] \in {"t", "T"}
                IN  Val(bloomberg_ticker_used[t]) =
                        BeforeFirstDot(in) \o (IF isT THEN JT_EQUITY ELSE EQUITY)

\* C8 witness: an input with two dots and "t" between them was normalized
\* to code + " JT EQUITY".
C8_Witness ==
    \E t \in Normalized :
        /\ Val(ticker_input[t]) = <<"7", ".", "t", ".">>
        /\ Val(bloomberg_ticker_used[t]) = <<"7">> \o JT_EQUITY

\* The digits and the letters the claims about the normalizer are checked
\* on: the ASCII ones; the full-width and the Arabic-Indic digits and the
\* superscripts one, two, three; the Latin-1 and full-width letters, some
\* digraphs and ligatures, and the CJK numerals, which are letters.
AsciiDigits == {"0", "1", "2", "3", "4", "5", "6", "7", "8", "9"}
OtherDigitChars ==
    {"U+FF10", "U+FF11", "U+FF12", "U+FF13", "U+FF14", "U+FF15", "U+FF16", "U+FF17",
     "U+FF18", "U+FF19", "U+0660", "U+0661", "U+0662", "U+0663", "U+0664", "U+0665",
     "U+0666", "U+0667", "U+0668", "U+0669", "U+00B9", "U+00B2", "U+00B3"}
DigitChars == AsciiDigits \cup OtherDigitChars
OtherLetterChars ==
    {"U+00B5", "U+00C0", "U+00C1", "U+00C2", "U+00C3", "U+00C4", "U+00C5", "U+00C6",
     "U+00C7", "U+00C8", "U+00C9", "U+00CA", "U+00CB", "U+00CC", "U+00CD", "U+00CE",
     "U+00CF", "U+00D0", "U+00D1", "U+00D2", "U+00D3", "U+00D4", "U+00D5", "U+00D6",
     "U+00D8", "U+00D9", "U+00DA", "U+00DB", "U+00DC", "U+00DD", "U+00DE", "U+00DF",
     "U+00E0", "U+00E1", "U+00E2", "U+00E3", "U+00E4", "U+00E5", "U+00E6", "U+00E7",
     "U+00E8", "U+00E9", "U+00EA", "U+00EB", "U+00EC", "U+00ED", "U+00EE", "U+00EF",
     "U+00F0", "U+00F1", "U+00F2", "U+00F3", "U+00F4", "U+00F5", "U+00F6", "U+00F8",
     "U+00F9", "U+00FA", "U+00FB", "U+00FC", "U+00FD", "U+00FE", "U+00FF", "U+0149",
     "U+0178", "U+01C4", "U+01C5", "U+01C6", "U+02BC", "U+039C", "U+4E00", "U+4E07",
     "U+4E09", "U+4E8C", "U+5343", "U+FB01", "U+FF21", "U+FF22", "U+FF23", "U+FF24",
     "U+FF25", "U+FF26", "U+FF27", "U+FF28", "U+FF29", "U+FF2A", "U+FF2B", "U+FF2C",
     "U+FF2D", "U+FF2E", "U+FF2F", "U+FF30", "U+FF31", "U+FF32", "U+FF33", "U+FF34",
     "U+FF35", "U+FF36", "U+FF37", "U+FF38", "U+FF39", "U+FF3A", "U+FF41", "U+FF42",
     "U+FF43", "U+FF44", "U+FF45", "U+FF46", "U+FF47", "U+FF48", "U+FF49", "U+FF4A",
     "U+FF4B", "U+FF4C", "U+FF4D", "U+FF4E", "U+FF4F", "U+FF50", "U+FF51", "U+FF52",
     "U+FF53", "U+FF54", "U+FF55", "U+FF56", "U+FF57", "U+FF58", "U+FF59", "U+FF5A"}
LetterChars == Range(LowerLetters) \cup Range(UpperLetters) \cup OtherLetterChars

\* C9: a non-empty input of digits only, ASCII or not, is normalized to the
\* input followed by " JT EQUITY", whatever the other two rules would give.
C9_DigitsAreJapanese ==
    \A t \in Normalized :
        LET in == Val(ticker_input[t])
        IN  (in # <<>> /\ Range(in) \subseteq DigitChars) =>
                Val(bloomberg_ticker_used[t]) = in \o JT_EQUITY

\* C9 witness: the input of an ASCII seven and a full-width seven was
\* normalized to itself followed by " JT EQUITY".
C9_Witness ==
    \E t \in Normalized :
        /\ Val(ticker_input[t]) = <<"7", "U+FF17">>
        /\ Val(bloomberg_ticker_used[t]) = <<"7", "U+FF17">> \o JT_EQUITY

\* C10: an input with at least one letter and no dot, digits mixed in or
\* not, is normalized to the upper-cased input followed by " US EQUITY".
C10_LettersAreUS ==
    \A t \in Normalized :
        LET in == Val(ticker_input[t])
        IN  (Range(in) \cap LetterChars # {} /\ ~Dotted(in)) =>
                Val(bloomberg_ticker_used[t]) = upper(in) \o US_EQUITY

\* What holds of C10: an input without a dot that has a character that is
\* not numeric is normalized to the upper-cased input followed by
\* " US EQUITY"; an input of numeric characters only, letters among them or
\* not, to the input followed by " JT EQUITY".
C10_NonNumericAreUS ==
    \A t \in Normalized :
        LET in == Val(ticker_input[t])
            out == Val(bloomberg_ticker_used[t])
        IN  ~Dotted(in) =>
                IF Range(in) \subseteq NumericChars
                THEN out = in \o JT_EQUITY
                ELSE /\ out = upper(in) \o US_EQUITY
                     /\ Range(out) \cap Range(LowerLetters) = {}

\* C11: a request without the ticker parameter is answered with status 400
\* and exactly the body {"error": "Ticker parameter is required"}; no
\* lookup is made for it.
C11_MissingTickerIs400 ==
    \A t \in Served :
        ticker_input[t] = None =>
            /\ http[t] = [status |-> 400, ticker |-> None, price |-> None,
                          error |-> Some("Ticker parameter is required")]
            /\ session[t] = None /\ result[t] = None /\ escaped[t] = None

\* C11 witness: a request without ticker has been answered 400 and no
\* session was constructed.
C11_Witness ==
    \E t \in Served :
        /\ ticker_input[t] = None
        /\ http[t].status = 400
        /\ http[t].error = Some("Ticker parameter is required")
        /\ nsessions = 0

\* A step in which thread t processes one more message of its event: the
\* message is msg'[t].
MessageStep(t) == nmsgs'[t] = nmsgs[t] + 1
Matching(m) == m.correlationIds # <<>> /\ m.correlationIds[1] = RequestCid
HasRecords(m) == Matching(m) /\ m.responseError = None /\ m.securityData # None
ErrorBearing(r) == Len(r.fieldExceptions) > 0 \/ r.securityError # None
Priced(r) == r.fieldData # None /\ Val(r.fieldData).has /\ ~Val(r.fieldData).null

\* The first record of the array with neither field exceptions nor a
\* security error; one past the end when there is none.
FirstPlain(a) ==
    IF \E j \in DOMAIN a : ~ErrorBearing(a[j])
    THEN CHOOSE j \in DOMAIN a : ~ErrorBearing(a[j]) /\ \A i \in 1..(j - 1) : ErrorBearing(a[i])
    ELSE Len(a) + 1

\* What the records after a record with field exceptions leave of it: the
\* price is that of the first plain record if it has one (never the
\* PX_LAST of the record with the field exceptions), and the error is the
\* one built from the exception at position At(exceptions) of the record,
\* when that record is the last before the first plain record and the
\* plain record, if any, has a price.
FieldExceptionOutcome(t, At(_)) ==
    LET m == Val(msg'[t])
        a == Val(m.securityData)
        j == FirstPlain(a)
        priced == j <= Len(a) /\ Priced(a[j])
    IN  \A i \in 1..(j - 1) :
            Len(a[i].fieldExceptions) > 0 =>
                /\ price'[t] = (IF priced THEN Some(Val(a[j].fieldData).value) ELSE None)
                /\ (i = j - 1 /\ (j > Len(a) \/ priced)) =>
                       error_message'[t] =
                           Some(FieldErrorText(a[i].security,
                                               a[i].fieldExceptions[At(a[i].fieldExceptions)]))
FirstOf(s) == 1
LastOf(s) == Len(s)

\* C12 as stated: for a record of a matching message with field
\* exceptions, the error recorded is built from the first field exception
\* of the array, no price is taken from that record, and the next record
\* is processed.
C12_FirstFieldException ==
    [][\A t \in Threads :
          (MessageStep(t) /\ HasRecords(Val(msg'[t]))) => FieldExceptionOutcome(t, FirstOf)]_vars

\* C12 amended: for a record of a matching message with field exceptions,
\* the error recorded is built from the last field exception of the array,
\* no price is taken from that record, and the next record is processed.
C12_LastFieldException ==
    [][\A t \in Threads :
          (MessageStep(t) /\ HasRecords(Val(msg'[t]))) => FieldExceptionOutcome(t, LastOf)]_vars

\* C12 witness: a record with the field exceptions FE1, FE2 and a PX_LAST
\* of 312.5 was followed by a record with PX_LAST 0; the error is that of
\* FE2 and the price is 0.
C12_Witness ==
    \E t \in Threads :
        /\ pc[t] = "eventEnd"
        /\ msg[t] # None /\ HasRecords(Val(msg[t]))
        /\ LET a == Val(Val(msg[t]).securityData)
           IN  /\ Len(a) = 2
               /\ a[1].fieldExceptions = <<FE1, FE2>>
               /\ a[1].fieldData = Some(PxValue(3125))
               /\ ~ErrorBearing(a[2]) /\ a[2].fieldData = Some(PxValue(0))
        /\ price[t] = Some(0)
        /\ error_message[t] =
              Some("Field Error for 7203 JT Equity (PX_LAST): Not applicable to security")

\* The outcomes of the nextEvent calls made on a session, in order.
RECURSIVE Polled(_)
Polled(log) ==
    IF log = <<>> THEN <<>>
    ELSE IF log[Len(log)].op = "nextEvent"
         THEN Append(Polled(SubSeq(log, 1, Len(log) - 1)), log[Len(log)].out)
         ELSE Polled(SubSeq(log, 1, Len(log) - 1))
SeenTerminal(t) == Range(Polled(calls[Val(session[t])])) \cap TerminalEventTypes # {}
Sent(t) == session[t] # None /\ Ended(Val(session[t]), "sendRequest", "ok")

\* A step in which thread t calls nextEvent on its session.
PollStep(t) ==
    /\ session[t] # None
    /\ Count(Val(session[t]), "nextEvent")' = Count(Val(session[t]), "nextEvent") + 1

\* C13: nextEvent is called only while no price and no error is recorded
\* and no RESPONSE event has been processed; and a lookup that has sent its
\* request, has neither price nor error and has seen neither a RESPONSE nor
\* a TIMEOUT event is still in the polling loop.
C13_PollUntilRecorded ==
    [][\A t \in Threads :
          /\ PollStep(t) =>
                /\ price[t] = None /\ error_message[t] = None
                /\ "RESPONSE" \notin Range(Polled(calls[Val(session[t])]))
          /\ (Sent(t) /\ price[t] = None /\ error_message[t] = None /\ ~SeenTerminal(t))' =>
                (pc[t] \in {"poll", "msg", "eventEnd"})']_vars

\* C13 witness: after a SESSION_STATUS event that recorded nothing the
\* lookup polled again; the second event, a PARTIAL_RESPONSE, gave a price,
\* and the next call on the session was stop.
C13_Witness ==
    \E t \in Served :
        /\ session[t] # None
        /\ Polled(calls[Val(session[t])]) = <<"SESSION_STATUS", "PARTIAL_RESPONSE">>
        /\ price[t] # None
        /\ LET log == calls[Val(session[t])]
           IN  log[Len(log)].op = "stop" /\ log[Len(log) - 1].op = "nextEvent"

\* C14: for the first record of a matching message that has neither field
\* exceptions nor a security error: a non-null PX_LAST becomes the price
\* and the record adds no error; a null PX_LAST leaves the price None and
\* the error "PX_LAST is null for <ticker>."; a missing PX_LAST leaves the
\* price None and the error "PX_LAST field not found for <ticker>.".
C14_PlainRecord ==
    [][\A t \in Threads :
          (MessageStep(t) /\ HasRecords(Val(msg'[t]))) =>
              LET a == Val(Val(msg'[t]).securityData)
                  j == FirstPlain(a)
                  bt == Str(Val(bloomberg_ticker_used[t]))
                  null == Some("PX_LAST is null for " \o bt \o ".")
                  absent == Some("PX_LAST field not found for " \o bt \o ".")
              IN  (j <= Len(a) /\ a[j].fieldData # None) =>
                      LET field_data == Val(a[j].fieldData)
                      IN  IF field_data.has /\ ~field_data.null
                          THEN /\ price'[t] = Some(field_data.value)
                               /\ error_message'[t] \notin {null, absent}
                               /\ j = 1 => error_message'[t] = None
                          ELSE /\ price'[t] = None
                               /\ error_message'[t] = (IF field_data.has THEN null ELSE absent)]_vars

\* C14 witness: the first record of a matching message held a null
\* PX_LAST; no price is set and the error is the "null" one.
C14_Witness ==
    \E t \in Threads :
        /\ pc[t] = "eventEnd"
        /\ ticker_input[t] = Some(<<"7", "2", "0", "3">>)
        /\ msg[t] # None /\ HasRecords(Val(msg[t]))
        /\ LET a == Val(Val(msg[t]).securityData)
           IN  Len(a) >= 1 /\ ~ErrorBearing(a[1]) /\ a[1].fieldData = Some(PxNull)
        /\ price[t] = None
        /\ error_message[t] = Some("PX_LAST is null for 7203 JT EQUITY.")

NonMatching(m) == m.correlationIds # <<>> /\ m.correlationIds[1] # RequestCid

\* C15: a message whose correlation id is not that of the request changes
\* neither price nor error: both were None before it and are None after
\* it, the request is not marked processed, and the lookup goes on with
\* the messages of the event and then polls again.
C15_NonMatchingIgnored ==
    [][\A t \in Threads :
          (MessageStep(t) /\ NonMatching(Val(msg'[t]))) =>
              /\ price'[t] = price[t] /\ error_message'[t] = error_message[t]
              /\ price'[t] = None /\ error_message'[t] = None
              /\ ~request_processed'[t]
              /\ pc'[t] = "msg"
              /\ raised'[t] = raised[t]]_vars

\* C15 witness: two non-terminal events, the second with MaxMsgs messages,
\* the last of them not matching and carrying a price; the lookup has
\* neither price nor error and is about to call nextEvent again.
C15_Witness ==
    \E t \in Threads :
        /\ pc[t] = "poll"
        /\ Polled(calls[Val(session[t])]) = <<"PARTIAL_RESPONSE", "SESSION_STATUS">>
        /\ nmsgs[t] = MaxMsgs
        /\ msg[t] # None /\ NonMatching(Val(msg[t]))
        /\ Val(msg[t]).securityData # None
        /\ Priced(Val(Val(msg[t]).securityData)[1])
        /\ price[t] = None /\ error_message[t] = None /\ ~request_processed[t]

Closed(t) ==
    LET log == calls[Val(session[t])]
    IN  log # <<>> /\ log[Len(log)].op = "stop" /\ log[Len(log)].out = "ok"

\* C16: every lookup that begins polling eventually returns (a price,
\* ticker, error triple comes back to the handler) with its session
\* closed, whatever events the provider delivers before the terminal one.
C16_PollingReturns ==
    \A t \in Threads : (pc[t] = "poll") ~> (result[t] # None /\ Closed(t))

\* What holds of C16: the polling loop is left and the request is over,
\* by a return or by an exception.
C16_PollingEnds ==
    \A t \in Threads : (pc[t] = "poll") ~> (pc[t] = "done")

Owners(sid) == {t \in Threads : session[t] = Some(sid)}

\* C17: with two requests served at once, each lookup has a session of its
\* own: every session was constructed by one thread and every call made on
\* it (start, openService, sendRequest, nextEvent, stop) was made by that
\* thread; and what a lookup records comes from its own session: a price
\* is the price its session delivered, a timeout error follows a TIMEOUT
\* event of its session, and the ticker is its own request's.
C17_OwnSession ==
    /\ \A t, u \in Threads :
          (t # u /\ session[t] # None) => session[t] # session[u]
    /\ \A sid \in SessionIds :
          calls[sid] # <<>> =>
              /\ calls[sid][1].op = "Session"
              /\ Owners(sid) = {calls[sid][1].by}
              /\ \A i \in DOMAIN calls[sid] :
                    /\ calls[sid][i].by = calls[sid][1].by
                    /\ i > 1 => calls[sid][i].op # "Session"
    /\ \A t \in Threads :
          session[t] # None =>
              LET sid == Val(session[t])
                  events == Range(Polled(calls[sid]))
              IN  /\ price[t] # None =>
                        /\ price[t] = Some(SessionPrice(sid))
                        /\ events \cap {"RESPONSE", "PARTIAL_RESPONSE"} # {}
                  /\ http[t].status = 200 =>
                        /\ http[t].price = Some(SessionPrice(sid))
                        /\ http[t].ticker = Some(Normalize(Val(ticker_input[t])))
                  /\ (bloomberg_ticker_used[t] # None /\
                      error_message[t] = Some(TimedOut(Val(bloomberg_ticker_used[t])))) =>
                        "TIMEOUT" \in events
                  /\ bloomberg_ticker_used[t] # None =>
                        bloomberg_ticker_used[t] = Some(Normalize(Val(ticker_input[t])))

\* C17 witness: the thread that constructed its session second has been
\* answered with the price of its session while the other thread, at the
\* end of an event, holds the price of the session constructed first.
C17_Witness ==
    /\ pc["t1"] = "done" /\ pc["t2"] = "eventEnd"
    /\ session["t1"] = Some(2) /\ session["t2"] = Some(1)
    /\ http["t1"].status = 200 /\ http["t1"].price = Some(3125)
    /\ price["t2"] = Some(0)
    /\ Count(1, "nextEvent") = 2 /\ Count(2, "nextEvent") = 1

\* The place of a provider operation in the order start, openService,
\* sendRequest, nextEvent, stop; 0 for the other calls of the log.
Rank(op) ==
    CASE op = "start" -> 1
      [] op = "openService" -> 2
      [] op = "sendRequest" -> 3
      [] op = "nextEvent" -> 4
      [] op = "stop" -> 5
      [] OTHER -> 0

\* The calls on a session follow the order, the operations of the given
\* ranks being the only ones made more than once, and sendRequest is
\* called only after start and openService have returned true.
InOrder(sid, repeatable) ==
    LET log == calls[sid]
    IN  /\ \A i, j \in DOMAIN log :
              (i < j /\ Rank(log[i].op) > 0 /\ Rank(log[j].op) > 0) =>
                  /\ Rank(log[i].op) <= Rank(log[j].op)
                  /\ Rank(log[i].op) = Rank(log[j].op) => Rank(log[i].op) \in repeatable
        /\ \A j \in DOMAIN log :
              log[j].op = "sendRequest" =>
                  /\ \E i \in 1..(j - 1) : log[i].op = "start" /\ log[i].out = "true"
                  /\ \E i \in 1..(j - 1) : log[i].op = "openService" /\ log[i].out = "true"

\* C18: on each session the provider operations happen at most once each,
\* nextEvent any number of times, in the order start, openService,
\* sendRequest, nextEvent, stop: nothing is repeated after a failure,
\* nothing is called after stop, and the request is sent only after start
\* and openService succeeded.
C18_FixedOrder ==
    \A sid \in SessionIds : InOrder(sid, {4})

\* What holds of C18: the same order, stop being called a second time
\* after openService returned false.
C18_FixedOrderStopRepeated ==
    \A sid \in SessionIds :
        /\ InOrder(sid, {4, 5})
        /\ Count(sid, "stop") <= 2
        /\ Count(sid, "stop") = 2 => Ended(sid, "openService", "false")

\* C19: on every return of get_bloomberg_price the price and the error are
\* not both there, so an answer 200 never leaves out a recorded error.
C19_PriceOrError ==
    \A t \in Threads :
        result[t] # None =>
            /\ ~(Val(result[t])[1] # None /\ Val(result[t])[3] # None)
            /\ http[t].status = 200 => Val(result[t])[3] = None
====
